---------------------------- MODULE Spec2Model ----------------------------
(***************************************************************************)
(* Model of OMPython's ModelExecutionCmd (src/OMPython/model_execution.py):*)
(* the argument set of a compiled model executable, the merge of the       *)
(* 'override' argument and the serialisation to command line tokens; and   *)
(* of OMCSessionZMQ (src/OMPython/OMCSession.py): the start of the engine, *)
(* the request/reply transport, the cache of ask and the teardown; and of  *)
(* parse_simflags (src/OMPython/ModelicaSystem.py).                        *)
(*                                                                         *)
(* Python strings are sequences of one-character strings; they are         *)
(* compared the way Python compares str values, character by character in  *)
(* code point order.  Python values are records tagged by their type.      *)
(* A Python dict is a sequence of <<key, value>> pairs without repeated    *)
(* keys, in insertion order.                                               *)
(***************************************************************************)
EXTENDS Integers, Sequences, FiniteSets, TLC

\* The longest sequence of calls made on one ModelExecutionCmd object.
MaxCalls == 3

(***************************************************************************)
(* Python str                                                              *)
(***************************************************************************)

\* The characters of the model in ascending code point order (ASCII).
Alphabet ==
    << " ", ",", "-", ".", "0", "1", "2", "3", "4", "5", "6", "7", "8", "9",
       "=", "E", "F", "R", "T", "a", "b", "d", "e", "i", "l", "m", "n", "o",
       "r", "s", "t", "u", "v", "x" >>

\* The rank of a character in code point order (ord() up to a monotone map).
Ord(c) == CHOOSE i \in 1..Len(Alphabet) : Alphabet[i] = c

\* str.__lt__: lexicographic order by code point, a proper prefix is smaller.
RECURSIVE StrLess(_, _)
StrLess(s, t) ==
    IF t = << >> THEN FALSE
    ELSE IF s = << >> THEN TRUE
    ELSE IF Head(s) # Head(t) THEN Ord(Head(s)) < Ord(Head(t))
    ELSE StrLess(Tail(s), Tail(t))

\* str.lstrip() / str.rstrip() / str.strip(): the blank is the only
\* whitespace character of the alphabet.
RECURSIVE LStrip(_)
LStrip(s) ==
    IF s # << >> /\ Head(s) = " " THEN LStrip(Tail(s)) ELSE s

RECURSIVE RStrip(_)
RStrip(s) ==
    IF s # << >> /\ s[Len(s)] = " " THEN RStrip(SubSeq(s, 1, Len(s) - 1)) ELSE s

Strip(s) == RStrip(LStrip(s))

\* sorted() on a list of str: insertion into an ascending list, stable.
RECURSIVE SortedInsert(_, _)
SortedInsert(sorted, s) ==
    IF sorted = << >> THEN << s >>
    ELSE IF StrLess(s, Head(sorted)) THEN << s >> \o sorted
    ELSE << Head(sorted) >> \o SortedInsert(Tail(sorted), s)

RECURSIVE Sorted(_)
Sorted(l) ==
    IF l = << >> THEN << >>
    ELSE SortedInsert(Sorted(SubSeq(l, 1, Len(l) - 1)), l[Len(l)])

\* ','.join(l)
RECURSIVE JoinComma(_)
JoinComma(l) ==
    IF l = << >> THEN << >>
    ELSE IF Len(l) = 1 THEN l[1]
    ELSE l[1] \o << "," >> \o JoinComma(Tail(l))

\* str(n) for an int n
Digits == << "0", "1", "2", "3", "4", "5", "6", "7", "8", "9" >>

RECURSIVE NatStr(_)
NatStr(n) ==
    IF n < 10 THEN << Digits[n + 1] >>
    ELSE NatStr(n \div 10) \o << Digits[(n % 10) + 1] >>

IntStr(n) == IF n < 0 THEN << "-" >> \o NatStr(-n) ELSE NatStr(n)


(***************************************************************************)
(* Python values                                                           *)
(***************************************************************************)

PyNone      == [t |-> "None"]
PyStr(s)    == [t |-> "str", s |-> s]
PyInt(n)    == [t |-> "int", n |-> n]
PyBool(b)   == [t |-> "bool", b |-> b]
\* a dict literal: its items in insertion order
PyDict(it)  == [t |-> "dict", items |-> it]
\* a value of a type no argument accepts (a list)
PyList      == [t |-> "list"]

\* isinstance(v, numbers.Number): bool is a subclass of int
IsNumber(v) == v.t \in {"int", "bool"}

\* str(v) for a number v: str(True) is 'True'
NumberStr(v) ==
    IF v.t = "bool" THEN (IF v.b THEN << "T", "r", "u", "e" >>
                                 ELSE << "F", "a", "l", "s", "e" >>)
    ELSE IntStr(v.n)

(***************************************************************************)
(* dict: a sequence of <<key, value>> pairs, no key twice                  *)
(***************************************************************************)

\* key in d
DictHas(d, k) == \E i \in 1..Len(d) : d[i][1] = k

\* d[key]
DictGet(d, k) == d[CHOOSE i \in 1..Len(d) : d[i][1] = k][2]

\* d[key] = v: a present key keeps its position, a new key is appended
DictSet(d, k, v) ==
    IF DictHas(d, k)
    THEN [i \in 1..Len(d) |-> IF d[i][1] = k THEN << k, v >> ELSE d[i]]
    ELSE Append(d, << k, v >>)

\* del d[key]
DictDel(d, k) == SelectSeq(d, LAMBDA p : p[1] # k)

\* list(d) and list(d.values())
DictKeys(d)   == [i \in 1..Len(d) |-> d[i][1]]
DictValues(d) == [i \in 1..Len(d) |-> d[i][2]]

(***************************************************************************)
(* ast.literal_eval as far as override2str uses it: the result when the    *)
(* string is a number or boolean literal, NotNumber when it is any other   *)
(* literal or raises ValueError / SyntaxError.  Literals covered: True,    *)
(* False and decimal integers with at most one sign; leading blanks are    *)
(* dropped before parsing and trailing blanks are ignored by the parser.   *)
(* Floating point, complex, hexadecimal, octal and binary literals are not *)
(* covered: no string of the calls below holds one.                        *)
(***************************************************************************)

NotNumber == [t |-> "NotNumber"]

IsDigit(c) == \E i \in 1..Len(Digits) : Digits[i] = c

DigitVal(c) == (CHOOSE i \in 1..Len(Digits) : Digits[i] = c) - 1

\* a decimal integer token: digits, no leading zero unless all are zero
IsDecimal(u) ==
    /\ u # << >>
    /\ \A i \in 1..Len(u) : IsDigit(u[i])
    /\ (u[1] = "0" => \A i \in 1..Len(u) : u[i] = "0")

RECURSIVE DecimalVal(_)
DecimalVal(u) ==
    IF u = << >> THEN 0
    ELSE 10 * DecimalVal(SubSeq(u, 1, Len(u) - 1)) + DigitVal(u[Len(u)])

LiteralOf(u) ==
    IF u = << "T", "r", "u", "e" >> THEN PyBool(TRUE)
    ELSE IF u = << "F", "a", "l", "s", "e" >> THEN PyBool(FALSE)
    ELSE IF IsDecimal(u) THEN PyInt(DecimalVal(u))
    ELSE IF u # << >> /\ Head(u) \in {"-", "+"} /\ IsDecimal(LStrip(Tail(u)))
         THEN PyInt((IF Head(u) = "-" THEN -1 ELSE 1) * DecimalVal(LStrip(Tail(u))))
    ELSE NotNumber

LiteralEval(s) == LiteralOf(Strip(s))

(***************************************************************************)
(* ModelExecutionCmd: state                                                *)
(***************************************************************************)

VARIABLES
    args,           \* self._args: key -> str or None
    arg_override,   \* self._arg_override: override key -> 'key=value'
    calls,          \* the calls made so far, each with its state before,
                    \* its outcome, its log records and its return value
    target,         \* self._cmd_local, self._cmd_windows, self._runpath,
                    \* self._model_name, self._timeout
    cmd_prefix,     \* the list given as cmd_prefix: self._cmd_prefix and the
                    \* cmd_prefix of every ModelExecutionData are this object
    data,           \* the ModelExecutionData objects made by definition()
    bat,            \* the lines of <runpath>/<model>.bat, or NoFile
    config,         \* OMCSessionZMQ: self._readonly, self._docker,
                    \* self._dockerContainer, self._timeout
    omc_cache,      \* self._omc_cache: (question, opt, parsed) -> result
    omc,            \* self._omc: "None" or "socket"
    omc_process,    \* self._omc_process: "None", or the engine process
                    \* "running" or "exited"
    omc_log_file,   \* self._omc_log_file: whether the file object is closed,
                    \* and the calls of close() made on it
    dockerCid,      \* self._dockerCid: "None" or "cid"
    port,           \* self._port: "None" or "port"
    frame,          \* the call being made: where it is and its locals
    wire,           \* the socket's messages: sent and received so far
    omc_pid,        \* self._omc_process.pid
    dockerCidFile,  \* whether the file self._dockerCidFile exists
    port_file,      \* the local file self._port_file: how often the session
                    \* has read it and how often it has removed it
    reached         \* the sendExpression calls made so far, by what asked

vars == << args, arg_override, calls, target, cmd_prefix, data, bat,
           config, omc_cache, omc, omc_process, omc_log_file, dockerCid,
           port, frame, wire, omc_pid, dockerCidFile, port_file, reached >>

\* the variables of the OMC session, which the calls on a
\* ModelExecutionCmd and a ModelExecutionData leave alone
session_vars == << config, omc_cache, omc, omc_process, omc_log_file,
                   dockerCid, port, frame, wire, omc_pid, dockerCidFile,
                   port_file, reached >>

\* the files of the session's start
file_vars == << dockerCidFile, port_file >>

\* the variables of ModelExecutionCmd and ModelExecutionData
cmd_vars == << args, arg_override, calls, target, cmd_prefix, data, bat >>

\* what the calls on the arguments leave alone
run_vars == << target, cmd_prefix, data, bat >>

\* the key of the argument with the special handling
kOverride == << "o", "v", "e", "r", "r", "i", "d", "e" >>

(***************************************************************************)
(* ModelExecutionCmd.arg_set                                               *)
(***************************************************************************)

\* the outcome of a call or of a part of one: the state it leaves, whether
\* it returned (ok) or raised ModelExecutionException, and its log records
Outcome(a, ov, ok, log) ==
    [args |-> a, arg_override |-> ov, ok |-> ok, log |-> log]

\* the same outcome, after the log records written before it
WithLog(log, r) == [r EXCEPT !.log = log \o @]

\* a log record: its level, which of the three messages of arg_set it is,
\* and the values the message names (the key and the value given, where
\* the message has them, and the value held before)
LogRemove(was) == [level |-> "info", event |-> "remove", was |-> was]
LogUpdate(okey, oval, was) ==
    [level |-> "info", event |-> "update", key |-> okey, val |-> oval,
     was |-> was]
LogOverride(key, argval, was) ==
    [level |-> "warning", event |-> "override", key |-> key, val |-> argval,
     was |-> was]

\* override2str: orval as the number or boolean it denotes when it is a
\* string holding such a literal
Evaluated(orval, val_evaluated) ==
    IF val_evaluated.t # "NotNumber" THEN val_evaluated ELSE orval

\* a faulty variant of Probe: no probe for literals
Probe_NoLiteralEval(orval) == orval

Probe(orval) ==
    IF orval.t = "str" THEN Evaluated(orval, LiteralEval(orval.s)) ELSE orval

\* override2str: val_str of a str, a bool or a number
ValStr(orval) ==
    IF orval.t = "str" THEN Strip(orval.s)
    ELSE IF orval.t = "bool"
         THEN (IF orval.b THEN << "t", "r", "u", "e" >>
                          ELSE << "f", "a", "l", "s", "e" >>)
    ELSE NumberStr(orval)

\* override2str(orkey, orval) for orval a str, bool or number (arg_set has
\* checked the type before the call, so the final else never raises)
override2str(orkey, orval) == orkey \o << "=" >> \o ValStr(Probe(orval))

\* a faulty variant of OverrideItem: None does not remove the key
OverrideItem_KeepOnNone(ov, okey, oval) ==
    IF okey.t # "str" \/ oval.t \notin {"str", "bool", "int", "None"}
    THEN [ov |-> ov, ok |-> FALSE, log |-> << >>]
    ELSE IF oval.t = "None" THEN [ov |-> ov, ok |-> TRUE, log |-> << >>]
    ELSE [ov  |-> DictSet(ov, okey.s, override2str(okey.s, oval)),
          ok  |-> TRUE,
          log |-> IF DictHas(ov, okey.s)
                 THEN << LogUpdate(okey.s, oval, DictGet(ov, okey.s)) >>
                 ELSE << >>]

\* a faulty variant of OverrideItem: a value replaces the map instead of joining it
OverrideItem_Replace(ov, okey, oval) ==
    IF okey.t # "str" \/ oval.t \notin {"str", "bool", "int", "None"}
    THEN [ov |-> ov, ok |-> FALSE, log |-> << >>]
    ELSE IF oval.t = "None"
    THEN [ov |-> DictDel(ov, okey.s), ok |-> TRUE, log |-> << >>]
    ELSE [ov  |-> << << okey.s, override2str(okey.s, oval) >> >>,
          ok  |-> TRUE,
          log |-> << >>]

\* One round of the loop over val.items(): the override map after it,
\* whether it raised, and the log records it wrote.
OverrideItem(ov, okey, oval) ==
    IF okey.t # "str" THEN [ov |-> ov, ok |-> FALSE, log |-> << >>]
    ELSE IF oval.t \notin {"str", "bool", "int", "None"}
    THEN [ov |-> ov, ok |-> FALSE, log |-> << >>]
    ELSE IF DictHas(ov, okey.s) /\ oval.t = "None"
    THEN [ov |-> DictDel(ov, okey.s), ok |-> TRUE,
          log |-> << LogRemove(DictGet(ov, okey.s)) >>]
    ELSE IF oval.t = "None" THEN [ov |-> ov, ok |-> TRUE, log |-> << >>]
    ELSE [ov  |-> DictSet(ov, okey.s, override2str(okey.s, oval)),
          ok  |-> TRUE,
          log |-> IF DictHas(ov, okey.s)
                 THEN << LogUpdate(okey.s, oval, DictGet(ov, okey.s)) >>
                 ELSE << >>]

\* The loop over val.items(): it stops at the first item that raises and
\* keeps what the items before it did to the override map.
RECURSIVE OverrideLoop(_, _)
OverrideRest(r, items) ==
    IF ~r.ok THEN r ELSE WithLog(r.log, OverrideLoop(r.ov, items))

OverrideLoop(ov, items) ==
    IF items = << >> THEN [ov |-> ov, ok |-> TRUE, log |-> << >>]
    ELSE OverrideRest(OverrideItem(ov, Head(items)[1], Head(items)[2]),
                      Tail(items))

\* a faulty variant of OverrideArgval: the entries in the order of their keys
OverrideArgval_ByKey(ov) ==
    JoinComma([i \in 1..Len(ov) |-> DictGet(ov, Sorted(DictKeys(ov))[i])])

\* argval of the override argument: ','.join(sorted(values))
OverrideArgval(ov) == JoinComma(Sorted(DictValues(ov)))

\* a faulty variant of DictAllowed: a dictionary is taken for every key
DictAllowed_Any(key) == TRUE

\* a dictionary is taken for the key 'override' only
DictAllowed(key) == key = kOverride

\* a faulty variant of StoreArg: a stored key is replaced without a warning
StoreArg_Silent(st, key, argval) ==
    Outcome(DictSet(st.args, key, argval), st.arg_override, TRUE, << >>)

\* self._args[key] = argval, with the warning when the key is stored
StoreArg(st, key, argval) ==
    Outcome(DictSet(st.args, key, argval), st.arg_override, TRUE,
            IF DictHas(st.args, key)
            THEN << LogOverride(key, argval, DictGet(st.args, key)) >>
            ELSE << >>)

Raise(st) == Outcome(st.args, st.arg_override, FALSE, << >>)

\* the dictionary branch after its loop over val.items()
ArgSetOverride(st, key, r) ==
    IF ~r.ok THEN Outcome(st.args, r.ov, FALSE, r.log)
    ELSE WithLog(r.log, StoreArg([args |-> st.args, arg_override |-> r.ov],
                                 key, PyStr(OverrideArgval(r.ov))))

\* arg_set after key.strip()
ArgSetStripped(st, key, val) ==
    IF val.t = "dict"
    THEN IF ~DictAllowed(key) THEN Raise(st)
         ELSE ArgSetOverride(st, key, OverrideLoop(st.arg_override, val.items))
    ELSE IF val.t = "None" THEN StoreArg(st, key, PyNone)
    ELSE IF val.t = "str" THEN StoreArg(st, key, PyStr(Strip(val.s)))
    ELSE IF IsNumber(val) THEN StoreArg(st, key, PyStr(NumberStr(val)))
    ELSE Raise(st)

\* arg_set(key, val) on the state st = [args, arg_override]
ArgSet(st, key, val) ==
    IF key.t # "str" THEN Raise(st) ELSE ArgSetStripped(st, Strip(key.s), val)

(***************************************************************************)
(* ModelExecutionCmd.args_set and ModelExecutionCmd.get_cmd_args           *)
(***************************************************************************)

\* args_set(args): arg_set for every item in turn; an exception of arg_set
\* ends the loop and leaves what the items before it stored.
RECURSIVE ArgsSet(_, _)
ArgsSetRest(r, items) ==
    IF ~r.ok THEN r
    ELSE WithLog(r.log, ArgsSet([args |-> r.args, arg_override |-> r.arg_override],
                                items))

ArgsSet(st, items) ==
    IF items = << >> THEN Outcome(st.args, st.arg_override, TRUE, << >>)
    ELSE ArgsSetRest(ArgSet(st, Head(items)[1], Head(items)[2]), Tail(items))

\* the token of one argument: -key or -key=value
CmdToken(a, key) ==
    IF DictGet(a, key).t = "None" THEN << "-" >> \o key
    ELSE << "-" >> \o key \o << "=" >> \o DictGet(a, key).s

\* get_cmd_args(): one token per key, the keys in the order they were stored
GetCmdArgs_Unsorted(a) ==
    [i \in 1..Len(a) |-> CmdToken(a, DictKeys(a)[i])]

\* get_cmd_args(): one token per key of sorted(self._args)
GetCmdArgs(a) ==
    [i \in 1..Len(a) |-> CmdToken(a, Sorted(DictKeys(a))[i])]

(***************************************************************************)
(* ModelExecutionCmd.arg_get                                               *)
(***************************************************************************)

\* an exception other than ModelExecutionException, as what a call gives
PyRaised(type) == [t |-> "raised", type |-> type]

\* key in self._args hashes the key: a list or a dict has no hash
Hashable(key) == key.t \notin {"list", "dict"}

\* arg_get(key): the key is looked up as it is given
ArgGet(a, key) ==
    IF ~Hashable(key) THEN PyRaised("TypeError")
    ELSE IF key.t = "str" /\ DictHas(a, key.s) THEN DictGet(a, key.s)
    ELSE PyNone

(***************************************************************************)
(* Paths and the batch file                                                *)
(***************************************************************************)

\* pathlib.PurePosixPath(runpath).as_posix(): trailing slashes are dropped
\* (the runpaths here have no '//' and no '.' component inside)
RECURSIVE PurePosixPath(_)
PurePosixPath(s) ==
    IF Len(s) > 1 /\ s[Len(s)] = "/"
    THEN PurePosixPath(SubSeq(s, 1, Len(s) - 1))
    ELSE s

\* (path / name).as_posix() for a path other than the root
JoinPath(path, name) == path \o << "/" >> \o name

sDotMat == << ".", "m", "a", "t" >>
sDotExe == << ".", "e", "x", "e" >>

\* re.IGNORECASE on the letters of the pattern
Upper(c) ==
    CASE c = "s" -> "S" [] c = "e" -> "E" [] c = "t" -> "T"
      [] c = "p" -> "P" [] c = "a" -> "A" [] c = "h" -> "H"
      [] OTHER -> c

kSetPath == << "S", "E", "T", " ", "P", "A", "T", "H", "=" >>

\* re.match(r"^SET PATH=([^%]*)", line, re.IGNORECASE) matches
SetPathMatch(line) ==
    /\ Len(line) >= Len(kSetPath)
    /\ \A i \in 1..Len(kSetPath) : Upper(line[i]) = kSetPath[i]

\* ([^%]*): the characters up to the first '%'
RECURSIVE UpToPercent(_)
UpToPercent(s) ==
    IF s = << >> \/ Head(s) = "%" THEN << >>
    ELSE << Head(s) >> \o UpToPercent(Tail(s))

\* match.group(1)
SetPathGroup(line) == UpToPercent(SubSeq(line, Len(kSetPath) + 1, Len(line)))

\* str.strip(';')
RECURSIVE LStripSemi(_)
LStripSemi(s) ==
    IF s # << >> /\ Head(s) = ";" THEN LStripSemi(Tail(s)) ELSE s

RECURSIVE RStripSemi(_)
RStripSemi(s) ==
    IF s # << >> /\ s[Len(s)] = ";"
    THEN RStripSemi(SubSeq(s, 1, Len(s) - 1))
    ELSE s

StripSemi(s) == RStripSemi(LStripSemi(s))

\* the loop over content.splitlines(): every matching line sets
\* cmd_library_path, so the last one stays
RECURSIVE LibraryPath(_, _)
LibraryPath(lines, path) ==
    IF lines = << >> THEN path
    ELSE LibraryPath(Tail(lines),
                     IF SetPathMatch(Head(lines))
                     THEN StripSemi(SetPathGroup(Head(lines)))
                     ELSE path)

(***************************************************************************)
(* ModelExecutionCmd.definition                                            *)
(***************************************************************************)

\* the key of the result file argument
sR == << "r" >>

\* timeout: float = 10.0
DefaultTimeout == 10

\* a faulty variant of ResultFile: the argument r is not looked at
ResultFile_Default(tg, result_file) ==
    JoinPath(tg.runpath, tg.model_name \o sDotMat)

\* result_file, from what arg_get('r') returned
ResultFile(tg, result_file) ==
    IF result_file.t = "str" THEN result_file.s
    ELSE JoinPath(tg.runpath, tg.model_name \o sDotMat)

LocalWindows(tg) == tg.cmd_local /\ tg.cmd_windows

\* a faulty variant of BatMissing: the batch file is wanted on every
\* Windows target
BatMissing_Windows(tg, b) == tg.cmd_windows /\ ~b.is_file

\* the batch file is looked for and is no file
BatMissing(tg, b) == LocalWindows(tg) /\ ~b.is_file

\* cmd_library_path: None, or what the batch file gives ("" without a
\* matching line)
CmdLibraryPath(tg, b) ==
    IF LocalWindows(tg) THEN PyStr(LibraryPath(b.lines, << >>)) ELSE PyNone

\* a faulty variant of CmdModelExecutable: .exe on every Windows target
CmdModelExecutable_Windows(tg) ==
    IF tg.cmd_windows THEN JoinPath(tg.runpath, tg.model_name \o sDotExe)
    ELSE JoinPath(tg.runpath, tg.model_name)

CmdModelExecutable(tg) ==
    IF LocalWindows(tg) THEN JoinPath(tg.runpath, tg.model_name \o sDotExe)
    ELSE JoinPath(tg.runpath, tg.model_name)

CmdCwdLocal(tg) == IF tg.cmd_local THEN PyStr(tg.runpath) ELSE PyNone

\* the ModelExecutionData that definition() builds; its cmd_prefix is the
\* list self._cmd_prefix itself (the variable cmd_prefix), not a copy
ModelExecutionData(tg, a, b) ==
    [cmd_path             |-> tg.runpath,
     cmd_model_name       |-> tg.model_name,
     cmd_args             |-> GetCmdArgs(a),
     cmd_result_file      |-> ResultFile(tg, ArgGet(a, PyStr(sR))),
     cmd_library_path     |-> CmdLibraryPath(tg, b),
     cmd_model_executable |-> CmdModelExecutable(tg),
     cmd_cwd_local        |-> CmdCwdLocal(tg),
     cmd_timeout          |-> tg.timeout]

\* no exception
NoExc == [type |-> "None"]

\* definition(): it raises ModelExecutionException without the batch file
\* of a local Windows target, and else returns the data
Definition(tg, a, b) ==
    IF BatMissing(tg, b)
    THEN [ok |-> FALSE, ret |-> PyNone,
          exc |-> [type |-> "ModelExecutionException",
                   head |-> "Batch file (*.bat) does not exist"]]
    ELSE [ok |-> TRUE, ret |-> ModelExecutionData(tg, a, b), exc |-> NoExc]

(***************************************************************************)
(* ModelExecutionData.get_cmd and ModelExecutionData.run                   *)
(***************************************************************************)

\* get_cmd(): cmdl = self.cmd_prefix names the list itself, and the two +=
\* extend it; the result is what the call returns and what the list holds
\* after it
GetCmd(prefix, d) == prefix \o << d.cmd_model_executable >> \o d.cmd_args

\* what subprocess.run meets: whether the file of the model executable
\* exists, whether the child is still running at the timeout, its exit
\* code and what it wrote to stderr
Child(exists, timedout, code, stderr) ==
    [exists |-> exists, timedout |-> timedout, code |-> code,
     stderr |-> stderr]

sErr == << "e", " " >>

\* a prefix program that does not find the executable exits with a code
\* other than 0 and a message
ChildOutcomes ==
    {Child(FALSE, FALSE, 1, sErr)}
    \cup {Child(TRUE, TRUE, 0, s) : s \in {<< >>, sErr}}
    \cup {Child(TRUE, FALSE, c, s) : c \in {0, 1}, s \in {<< >>, << " " >>, sErr}}

\* ModelExecutionException(f"{head} running model executable
\* {repr(cmdl)}: {tail}") raised from the exception cause
Raised(head, cmdl, tail, cause) ==
    [ok |-> FALSE, ret |-> PyNone,
     exc |-> [type |-> "ModelExecutionException", head |-> head,
              cmd |-> cmdl, tail |-> tail, cause |-> cause]]

\* an exception of subprocess.run that run() does not catch
Escaped(type) ==
    [ok |-> FALSE, ret |-> PyNone, exc |-> [type |-> type]]

\* str(ex) of subprocess.TimeoutExpired and subprocess.CalledProcessError
TimedOutText(cmdl, timeout) ==
    [text |-> "Command timed out after seconds", cmd |-> cmdl,
     timeout |-> timeout]
ExitStatusText(cmdl, code) ==
    [text |-> "Command returned non-zero exit status", cmd |-> cmdl,
     returncode |-> code]
StderrText(stderr) == [text |-> "stderr", stderr |-> stderr]

\* a faulty variant of Run: a timeout is reported as any other error
Run_TimeoutAsError(cmdl, d, child) ==
    IF ~child.exists /\ cmdl[1] = d.cmd_model_executable
    THEN Escaped("FileNotFoundError")
    ELSE IF child.timedout
    THEN Raised("Error", cmdl, ExitStatusText(cmdl, child.code),
                [type |-> "CalledProcessError", stderr |-> child.stderr])
    ELSE IF child.code # 0
    THEN Raised("Error", cmdl, ExitStatusText(cmdl, child.code),
                [type |-> "CalledProcessError", stderr |-> child.stderr])
    ELSE IF Strip(child.stderr) # << >>
    THEN Raised("Error", cmdl, StderrText(Strip(child.stderr)), NoExc)
    ELSE [ok |-> TRUE, ret |-> PyInt(child.code), exc |-> NoExc]

\* run() after cmdl = self.get_cmd(): subprocess.run(cmdl, timeout=...,
\* check=True) starts cmdl[0] and raises FileNotFoundError without it,
\* TimeoutExpired at the timeout and CalledProcessError for an exit code
\* other than 0; run() turns the last two and a non-blank stderr into
\* ModelExecutionException and returns the exit code otherwise
Run(cmdl, d, child) ==
    IF ~child.exists /\ cmdl[1] = d.cmd_model_executable
    THEN Escaped("FileNotFoundError")
    ELSE IF child.timedout
    THEN Raised("Timeout", cmdl, TimedOutText(cmdl, d.cmd_timeout),
                [type |-> "TimeoutExpired", stderr |-> child.stderr])
    ELSE IF child.code # 0
    THEN Raised("Error", cmdl, ExitStatusText(cmdl, child.code),
                [type |-> "CalledProcessError", stderr |-> child.stderr])
    ELSE IF Strip(child.stderr) # << >>
    THEN Raised("Error", cmdl, StderrText(Strip(child.stderr)), NoExc)
    ELSE [ok |-> TRUE, ret |-> PyInt(child.code), exc |-> NoExc]

(***************************************************************************)
(* OMCSessionZMQ: the session, its transport and its cache                 *)
(***************************************************************************)

\* timeout=10.00
SessionTimeout == 10

\* the attempts of the send loop, of the loop on the port file and of the
\* two loops of a docker start
SendAttempts    == 50
ConnectAttempts == 80
DockerAttempts  == 40

sGetErrorString ==
    << "g", "e", "t", "E", "r", "r", "o", "r", "S", "t", "r", "i", "n", "g" >>
sQuit     == << "q", "u", "i", "t", "(", ")" >>
sQuestion == << "q" >>

\* p = (question, opt, parsed)
AskKey(question, opt, parsed) ==
    [question |-> question, opt |-> opt, parsed |-> parsed]

NoKey == AskKey(<< >>, PyNone, FALSE)

\* if opt: f'{question}({opt})' else question
Expression(question, opt) ==
    IF opt.t = "str" /\ opt.s # << >>
    THEN question \o << "(" >> \o opt.s \o << ")" >>
    ELSE question

\* a faulty variant of CacheRead: the cache is never looked into
CacheRead_Never(readonly, question) == FALSE

\* ask looks into the cache: self._readonly and question != 'getErrorString'
CacheRead(readonly, question) == readonly /\ question # sGetErrorString

\* what a call gives: nothing (None), the reply as it came, or what
\* om_parser_typed or om_parser_basic made of it
Value(kind, of) == [kind |-> kind, of |-> of]
NoneValue == Value("None", "")

\* an exception: its type, its message, and whether the message holds the
\* content of the log file
Exc(type, text, log) == [type |-> type, text |-> text, log |-> log]
NoException == Exc("None", "", FALSE)

\* the time slept in the loop the call is in: n sleeps of
\* timeout / attempts each
Slept(n, timeout, attempts) == [n |-> n, num |-> timeout, den |-> attempts]
NotSlept == Slept(0, 0, 1)

\* no call is being made
IdleFrame ==
    [at |-> "idle", op |-> "None", key |-> NoKey, command |-> << >>,
     parsed |-> FALSE, hit |-> FALSE, called |-> FALSE, polled |-> "None",
     via |-> "None", attempts |-> 0, slept |-> NotSlept, top |-> PyNone,
     sends |-> 0, recvs |-> 0, reply |-> "",
     result |-> NoneValue, exc |-> NoException, warnings |-> << >>]

\* no OMCSessionZMQ has been made
NoSession ==
    /\ config = [readonly |-> FALSE, docker |-> FALSE,
                 dockerContainer |-> FALSE, timeout |-> SessionTimeout]
    /\ omc_cache = << >>
    /\ omc = "None"
    /\ omc_process = "None"
    /\ omc_log_file = [closed |-> FALSE, closes |-> 0]
    /\ dockerCid = "None"
    /\ port = "None"
    /\ frame = IdleFrame
    /\ wire = [sent |-> 0, received |-> 0]
    /\ omc_pid = PyNone
    /\ dockerCidFile = FALSE
    /\ port_file = [reads |-> 0, removes |-> 0]
    /\ reached = << >>

(***************************************************************************)
(* The calls a client makes                                                *)
(***************************************************************************)

sA           == << "a" >>
sB           == << "b" >>
sAdotB       == << "a", ".", "b" >>
sX           == << "x" >>
sNoRestart   == << "n", "o", "R", "e", "s", "t", "a", "r", "t" >>
sNoEventEmit == << "n", "o", "E", "v", "e", "n", "t", "E", "m", "i", "t" >>
sTrue        == << "T", "r", "u", "e" >>
Padded(s)    == << " " >> \o s \o << " " >>

\* the arguments <<key, val>> of the arg_set calls
ArgSetInputs ==
    << << PyStr(Padded(sR)), PyStr(Padded(sX)) >>,
       << PyStr(sR), PyInt(4) >>,
       << PyStr(<< >>), PyNone >>,
       << PyStr(<< " " >>), PyStr(Padded(sX)) >>,
       << PyInt(5), PyNone >>,
       << PyStr(sR), PyList >>,
       << PyStr(sR), PyDict(<< << PyStr(sA), PyInt(1) >> >>) >>,
       << PyStr(kOverride), PyStr(sX) >>,
       << PyStr(kOverride), PyDict(<< << PyStr(sA), PyInt(1) >> >>) >>,
       << PyStr(kOverride), PyDict(<< << PyStr(sB), PyInt(2) >> >>) >>,
       << PyStr(kOverride), PyDict(<< << PyStr(sA), PyInt(1) >>,
                                      << PyStr(sB), PyInt(2) >> >>) >>,
       << PyStr(Padded(kOverride)), PyDict(<< << PyStr(sB), PyNone >> >>) >>,
       << PyStr(kOverride), PyDict(<< << PyStr(sA), PyStr(Padded(<< "4" >>)) >>,
                                      << PyStr(sB), PyBool(TRUE) >> >>) >>,
       << PyStr(kOverride), PyDict(<< << PyStr(sA), PyInt(4) >>,
                                      << PyStr(sB), PyStr(sTrue) >> >>) >>,
       << PyStr(kOverride), PyDict(<< << PyStr(sAdotB), PyStr(Padded(sX)) >> >>) >>,
       << PyStr(kOverride), PyDict(<< << PyStr(sA), PyInt(1) >>,
                                      << PyStr(sB), PyList >> >>) >>,
       << PyStr(kOverride), PyDict(<< << PyInt(5), PyInt(1) >> >>) >> >>

\* the arguments of the args_set calls: the two calls of test_simflags and
\* one whose second item is refused
ArgsSetInputs ==
    << << << PyStr(kOverride), PyDict(<< << PyStr(sB), PyInt(2) >>,
                                         << PyStr(sA), PyInt(4) >> >>) >>,
          << PyStr(sNoRestart), PyNone >>,
          << PyStr(sNoEventEmit), PyNone >> >>,
       << << PyStr(kOverride), PyDict(<< << PyStr(sB), PyNone >> >>) >> >>,
       << << PyStr(sNoRestart), PyNone >>,
          << PyStr(sR), PyList >> >> >>

\* the keys of the arg_get calls
ArgGetInputs ==
    << PyStr(sR), PyStr(Padded(sR)), PyStr(<< >>), PyStr(kOverride),
       PyInt(5), PyList >>

State == [args |-> args, arg_override |-> arg_override]

\* the record of a call: the state before it, what it was given, whether it
\* returned, what it logged and what it returned
Called(op, key, val, r, ret) ==
    [op |-> op, key |-> key, val |-> val, pre |-> State,
     ok |-> r.ok, log |-> r.log, ret |-> ret]

\* the model name, work directories with and without a trailing slash,
\* and the prefix of a local and of a containerized target
sM        == << "M" >>
sRunpath  == << "/", "w" >>
sDocker   == << "d", "o", "c", "k", "e", "r" >>
sExec     == << "e", "x", "e", "c" >>
Runpaths  == {sRunpath, sRunpath \o << "/" >>}
Prefixes  == {<< >>, << sDocker, sExec >>}

\* the batch file: none, one without a SET PATH line, one with two
NoBat == [is_file |-> FALSE, lines |-> << >>]
BatFiles ==
    {NoBat,
     [is_file |-> TRUE, lines |-> << << "r", "e", "m" >> >>],
     [is_file |-> TRUE,
      lines |-> << << "S", "E", "T", " ", "P", "A", "T", "H", "=",
                      "/", "k", ";", "%", "P" >>,
                   << "r", "e", "m" >>,
                   << "s", "e", "t", " ", "p", "a", "t", "h", "=",
                      ";", "/", "l", ";", ";", "%", "P", "%", ";" >> >>]}

\* ModelExecutionCmd(runpath, cmd_prefix, cmd_local, cmd_windows,
\* model_name=...): the fields that stay as they are
Target(local, windows, runpath) ==
    [cmd_local |-> local, cmd_windows |-> windows,
     runpath |-> PurePosixPath(runpath), model_name |-> sM,
     timeout |-> DefaultTimeout]

\* the arguments <<key, val>> of the arg_set calls made before definition()
RunArgInputs ==
    << << PyStr(Padded(sR)), PyStr(Padded(sX)) >>,
       << PyStr(sR), PyNone >>,
       << PyStr(kOverride), PyDict(<< << PyStr(sA), PyInt(1) >> >>) >> >>

\* the record of a call of definition(), get_cmd() or run(): as Called, and
\* with the descriptor it was made on, what the child did, the command
\* list of the call, the exception and the prefix list and the descriptors
\* before it
RunCalled(op, d, child, cmdl, r) ==
    [op |-> op, key |-> PyNone, val |-> PyNone, pre |-> State,
     ok |-> r.ok, log |-> << >>, ret |-> r.ret, d |-> d, child |-> child,
     cmdl |-> cmdl, exc |-> r.exc, pre_prefix |-> cmd_prefix,
     pre_data |-> data]

\* ModelExecutionCmd as test_ModelExecutionCmd makes it, with the defaults
\* of cmd_local and cmd_windows
Init ==
    /\ args = << >>
    /\ arg_override = << >>
    /\ calls = << >>
    /\ target = Target(FALSE, FALSE, sRunpath)
    /\ cmd_prefix = << >>
    /\ data = << >>
    /\ bat = NoBat
    /\ NoSession

\* ModelExecutionCmd for every kind of target
InitRun ==
    /\ args = << >>
    /\ arg_override = << >>
    /\ calls = << >>
    /\ \E local \in BOOLEAN, windows \in BOOLEAN, runpath \in Runpaths :
         target = Target(local, windows, runpath)
    /\ cmd_prefix \in Prefixes
    /\ data = << >>
    /\ bat \in BatFiles
    /\ NoSession

ArgSetCall ==
    /\ Len(calls) < MaxCalls
    /\ \E i \in 1..Len(ArgSetInputs) :
         LET key == ArgSetInputs[i][1]
             val == ArgSetInputs[i][2]
             r   == ArgSet(State, key, val)
         IN  /\ args' = r.args
             /\ arg_override' = r.arg_override
             /\ calls' = Append(calls, Called("arg_set", key, val, r, << >>))
    /\ UNCHANGED << run_vars, session_vars >>

ArgsSetCall ==
    /\ Len(calls) < MaxCalls
    /\ \E i \in 1..Len(ArgsSetInputs) :
         LET r == ArgsSet(State, ArgsSetInputs[i])
         IN  /\ args' = r.args
             /\ arg_override' = r.arg_override
             /\ calls' = Append(calls, Called("args_set", PyNone,
                                              PyDict(ArgsSetInputs[i]), r, << >>))
    /\ UNCHANGED << run_vars, session_vars >>

\* a faulty variant of GetCmdArgsCall: the call consumes the stored arguments
GetCmdArgsCall_Consumes ==
    /\ Len(calls) < MaxCalls
    /\ calls' = Append(calls, Called("get_cmd_args", PyNone, PyNone,
                                     [ok |-> TRUE, log |-> << >>],
                                     GetCmdArgs(args)))
    /\ args' = << >>
    /\ UNCHANGED << arg_override, run_vars, session_vars >>

GetCmdArgsCall ==
    /\ Len(calls) < MaxCalls
    /\ calls' = Append(calls, Called("get_cmd_args", PyNone, PyNone,
                                     [ok |-> TRUE, log |-> << >>],
                                     GetCmdArgs(args)))
    /\ UNCHANGED << args, arg_override, run_vars, session_vars >>

ArgGetCall ==
    /\ Len(calls) < MaxCalls
    /\ \E i \in 1..Len(ArgGetInputs) :
         calls' = Append(calls,
                         Called("arg_get", ArgGetInputs[i], PyNone,
                                [ok  |-> ArgGet(args, ArgGetInputs[i]).t # "raised",
                                 log |-> << >>],
                                ArgGet(args, ArgGetInputs[i])))
    /\ UNCHANGED << args, arg_override, run_vars, session_vars >>

Next == ArgSetCall \/ ArgsSetCall \/ GetCmdArgsCall \/ ArgGetCall

Spec == Init /\ [][Next]_vars

ArgSetForRunCall ==
    /\ Len(calls) < MaxCalls
    /\ \E i \in 1..Len(RunArgInputs) :
         LET key == RunArgInputs[i][1]
             val == RunArgInputs[i][2]
             r   == ArgSet(State, key, val)
         IN  /\ args' = r.args
             /\ arg_override' = r.arg_override
             /\ calls' = Append(calls, Called("arg_set", key, val, r, << >>))
    /\ UNCHANGED << run_vars, session_vars >>

\* definition(): the new descriptor joins those made before
DefinitionCall ==
    /\ Len(calls) < MaxCalls
    /\ data' = IF Definition(target, args, bat).ok
               THEN Append(data, Definition(target, args, bat).ret)
               ELSE data
    /\ calls' = Append(calls,
                       RunCalled("definition", Len(data) + 1, PyNone, << >>,
                                 Definition(target, args, bat)))
    /\ UNCHANGED << args, arg_override, target, cmd_prefix, bat,
                    session_vars >>

\* get_cmd() on one of the descriptors
GetCmdCall ==
    /\ Len(calls) < MaxCalls
    /\ \E d \in 1..Len(data) :
         /\ cmd_prefix' = GetCmd(cmd_prefix, data[d])
         /\ calls' = Append(calls,
                            RunCalled("get_cmd", d, PyNone,
                                      GetCmd(cmd_prefix, data[d]),
                                      [ok  |-> TRUE,
                                       ret |-> GetCmd(cmd_prefix, data[d]),
                                       exc |-> NoExc]))
    /\ UNCHANGED << args, arg_override, target, data, bat, session_vars >>

\* run() on one of the descriptors, with what the child does
RunCall ==
    /\ Len(calls) < MaxCalls
    /\ \E d \in 1..Len(data), child \in ChildOutcomes :
         /\ cmd_prefix' = GetCmd(cmd_prefix, data[d])
         /\ calls' = Append(calls,
                            RunCalled("run", d, child,
                                      GetCmd(cmd_prefix, data[d]),
                                      Run(GetCmd(cmd_prefix, data[d]),
                                          data[d], child)))
    /\ UNCHANGED << args, arg_override, target, data, bat, session_vars >>

NextRun == ArgSetForRunCall \/ DefinitionCall \/ GetCmdCall \/ RunCall

SpecRun == InitRun /\ [][NextRun]_vars

(***************************************************************************)
(* OMCSessionZMQ: the steps of the constructor, of ask and of              *)
(* sendExpression.  The platform is not win32.  The engine process may     *)
(* exit at any moment; a send attempt succeeds only while it runs, and a   *)
(* reply may or may not come.                                              *)
(***************************************************************************)

\* The most calls of ask and sendExpression made on one session.
MaxAsks == 2

\* the values of timeout= a session is made with
Timeouts == { SessionTimeout, SessionTimeout + 5 }

\* the arguments <<question, opt, parsed>> of the ask calls
AskInputs ==
    << << sQuestion, PyNone, TRUE >>,
       << sQuestion, PyStr(sX), FALSE >>,
       << sGetErrorString, PyNone, FALSE >> >>

\* what the engine replies
Replies == { "r1", "r2" }

\* om_parser_typed(result): a value, or the exception it raises
TypedOutcomes == { "value", "ParseException", "KeyError" }

\* om_parser_basic(result): a value, or the exception it raises
BasicOutcomes == { "value", "TypeError", "UnboundLocalError", "KeyError" }

\* the calls made so far with one operation and tuple: n calls, of which
\* calls went into sendExpression, of which returned came back with a value
ReachedBy(op, key) ==
    IF \E i \in 1..Len(reached) : reached[i].op = op /\ reached[i].key = key
    THEN reached[CHOOSE i \in 1..Len(reached) :
                     reached[i].op = op /\ reached[i].key = key]
    ELSE [op |-> op, key |-> key, n |-> 0, calls |-> 0, returned |-> 0]

ReachedSet(r) ==
    IF \E i \in 1..Len(reached) : reached[i].op = r.op /\ reached[i].key = r.key
    THEN [i \in 1..Len(reached) |->
             IF reached[i].op = r.op /\ reached[i].key = r.key
             THEN r ELSE reached[i]]
    ELSE Append(reached, r)

RECURSIVE NAsked(_)
NAsked(r) == IF r = << >> THEN 0 ELSE Head(r).n + NAsked(Tail(r))

\* a faulty variant of PollExited: the process is taken to run
PollExited_Never(process) == FALSE

\* p = self._omc_process.poll(); p is not None
PollExited(process) == process # "running"

\* attempts >= 50
SendExhausted(attempts) == attempts >= SendAttempts

\* a faulty variant of ConnectExhausted: one more attempt is made
ConnectExhausted_Late(attempts) == attempts = ConnectAttempts + 1

\* attempts == 80.0
ConnectExhausted(attempts) == attempts = ConnectAttempts

\* the pid of the process subprocess.Popen has started
PopenPid == 1

\* one line of the output of docker top: its second column and whether
\* the line holds self._random_string
TopLine(pid, token) == [pid |-> pid, token |-> token]

\* the outputs of docker top, without the header line
DockerTops ==
    << << >>,
       << TopLine(7, FALSE) >>,
       << TopLine(8, TRUE) >>,
       << TopLine(7, FALSE), TopLine(8, TRUE), TopLine(9, TRUE) >> >>

\* dockerTop when docker top has answered
Listing(lines) == [t |-> "listing", lines |-> lines]

\* a faulty variant of TokenLine: the last line with the token
TokenLine_Last(lines) ==
    LET with == { i \in 1..Len(lines) : lines[i].token }
    IN  IF with = { } THEN 0
        ELSE CHOOSE i \in with : \A j \in with : j <= i

\* the first line of the listing that holds the token, 0 if none does
TokenLine(lines) ==
    LET with == { i \in 1..Len(lines) : lines[i].token }
    IN  IF with = { } THEN 0
        ELSE CHOOSE i \in with : \A j \in with : i <= j

\* an exception whose message holds the output of docker top
ExcTop(type, text, log, top) ==
    [type |-> type, text |-> text, log |-> log, top |-> top]

\* a faulty variant of PortFileRead: the file is left in place
PortFileRead_Kept(pf) == [pf EXCEPT !.reads = @ + 1]

\* the port file is read once and then removed
PortFileRead(pf) == [pf EXCEPT !.reads = @ + 1, !.removes = @ + 1]

\* time.sleep(timeout / attempts) once more
SleepOnce(f, timeout, attempts) ==
    [f EXCEPT !.slept = Slept(f.slept.n + 1, timeout, attempts)]

\* the call ends with the value v; ask stores it under its tuple
Returns(f, v) ==
    /\ frame' = [f EXCEPT !.at = "returned", !.result = v]
    /\ omc_cache' = IF f.op = "ask" THEN DictSet(omc_cache, f.key, v)
                    ELSE omc_cache
    /\ reached' = IF f.op \notin { "ask", "sendExpression" } THEN reached
                  ELSE ReachedSet([ReachedBy(f.op, f.key) EXCEPT
                                      !.returned = @ + 1])

\* the call ends with the exception e
Raises(f, e) ==
    /\ frame' = [f EXCEPT !.at = "raised", !.exc = e]
    /\ UNCHANGED << omc_cache, reached >>

\* sendExpression up to its first send attempt
Enter(f) ==
    LET g == [f EXCEPT !.called = TRUE, !.polled = omc_process]
    IN  IF omc_process = "None"
        THEN [g EXCEPT !.at = "raised",
                       !.exc = Exc("AttributeError", "poll", FALSE)]
        ELSE IF PollExited(omc_process)
        THEN [g EXCEPT !.at = "raised",
                       !.exc = Exc("OMCSessionException", "Process Exited",
                                   FALSE)]
        ELSE IF omc = "None"
        THEN [g EXCEPT !.at = "raised",
                       !.exc = Exc("AttributeError", "send_string", FALSE)]
        ELSE [g EXCEPT !.at = "send"]

\* OMCSessionZMQ(readonly=, timeout=, docker= or dockerContainer=) up to the
\* first loop
Construct ==
    /\ frame.at = "idle"
    /\ omc_process = "None"
    /\ port = "None"
    /\ \E readonly \in BOOLEAN, timeout \in Timeouts,
          env \in { "local", "docker", "dockerContainer" } :
         /\ config' = [readonly |-> readonly, docker |-> env = "docker",
                       dockerContainer |-> env = "dockerContainer",
                       timeout |-> timeout]
         /\ dockerCid' = IF env = "dockerContainer" THEN "cid" ELSE "None"
         /\ frame' = [IdleFrame EXCEPT
                         !.op = "init",
                         !.at = CASE env = "docker" -> "cid"
                                  [] env = "dockerContainer" -> "top"
                                  [] OTHER -> "connect"]
    /\ omc_cache' = << >>
    /\ omc_log_file' = [closed |-> FALSE, closes |-> 0]
    /\ omc_process' = "running"
    /\ omc_pid' = PyInt(PopenPid)
    /\ dockerCidFile' = FALSE
    /\ port_file' = [reads |-> 0, removes |-> 0]
    /\ UNCHANGED << omc, port, wire, reached, cmd_vars >>

\* _start_omc_process: one round of the loop on the cid file, and what
\* follows the loop
CidStep ==
    /\ frame.at = "cid"
    /\ \E read \in { "IOError", "", "cid" } :
         LET cid == IF read = "IOError" THEN dockerCid ELSE read
             f   == [frame EXCEPT !.attempts = @ + 1]
         IN  /\ dockerCid' = cid
             /\ dockerCidFile' = IF cid \notin { "None", "" }
                                     \/ ~(f.attempts < DockerAttempts)
                                  THEN FALSE
                                  ELSE read # "IOError"
             /\ IF cid \notin { "None", "" }
                THEN frame' = [f EXCEPT !.at = "top", !.attempts = 0,
                                        !.slept = NotSlept]
                ELSE IF f.attempts < DockerAttempts
                THEN frame' = SleepOnce(f, config.timeout, DockerAttempts)
                ELSE IF cid = "None"
                THEN frame' = [SleepOnce(f, config.timeout, DockerAttempts)
                                  EXCEPT !.at = "raised",
                                         !.exc = Exc("OMCSessionException",
                                                     "Docker did not start",
                                                     FALSE)]
                ELSE frame' = [f EXCEPT !.at = "top", !.attempts = 0,
                                        !.slept = NotSlept]
    /\ UNCHANGED << config, omc_cache, omc, omc_process, omc_log_file, port,
                    wire, port_file, omc_pid, reached, cmd_vars >>

\* _start_omc_process: one round of the loop on docker top, and what
\* follows the loop
TopStep ==
    /\ frame.at = "top"
    /\ \E k \in IF dockerCid = "" THEN { 0 } ELSE 0..Len(DockerTops) :
         LET f == [frame EXCEPT !.attempts = @ + 1]
         IN  IF k = 0
             THEN /\ frame' = [f EXCEPT !.at = "raised",
                                        !.exc = Exc("CalledProcessError",
                                                    "docker top", FALSE)]
                  /\ UNCHANGED << omc_process, omc_pid >>
             ELSE LET dockerTop == DockerTops[k]
                      g         == [f EXCEPT !.top = Listing(dockerTop)]
                      i         == TokenLine(dockerTop)
                  IN  IF i = 0
                      THEN /\ frame' =
                                IF g.attempts < DockerAttempts
                                THEN SleepOnce(g, config.timeout,
                                               DockerAttempts)
                                ELSE [SleepOnce(g, config.timeout,
                                                DockerAttempts)
                                         EXCEPT !.at = "raised",
                                                !.exc = ExcTop("OMCSessionException",
                                                               "Docker top did not contain omc process",
                                                               TRUE, g.top)]
                           /\ omc_process' = "None"
                           /\ omc_pid' = PyNone
                      ELSE \E NoSuchProcess \in BOOLEAN :
                             IF NoSuchProcess
                             THEN /\ frame' = [g EXCEPT
                                                 !.at = "raised",
                                                 !.exc = ExcTop("OMCSessionException",
                                                                "Could not find PID",
                                                                TRUE, g.top)]
                                  /\ omc_process' = "None"
                                  /\ omc_pid' = PyNone
                             ELSE /\ frame' = [g EXCEPT !.at = "connect",
                                                        !.attempts = 0,
                                                        !.slept = NotSlept]
                                  /\ omc_process' = "running"
                                  /\ omc_pid' = PyInt(dockerTop[i].pid)
    /\ UNCHANGED << config, omc_cache, omc, omc_log_file, dockerCid, port,
                    wire, reached, cmd_vars, file_vars >>

\* _connect_to_omc: one round of the loop on the port file
ConnectStep ==
    /\ frame.at = "connect"
    /\ \E found \in BOOLEAN :
         LET via == IF dockerCid \notin { "None", "" } THEN "docker exec"
                    ELSE "isfile"
             f   == [frame EXCEPT !.attempts = @ + 1, !.via = via]
         IN  IF found
             THEN /\ port' = "port"
                  /\ port_file' = IF via = "isfile"
                                  THEN PortFileRead(port_file)
                                  ELSE port_file
                  /\ omc' = "socket"
                  /\ frame' = [frame EXCEPT !.at = "returned", !.via = via]
                  /\ UNCHANGED omc_log_file
             ELSE IF ConnectExhausted(f.attempts)
             THEN /\ omc_log_file' = [closed |-> TRUE,
                                       closes |-> omc_log_file.closes + 1]
                  /\ frame' = [f EXCEPT !.at = "raised",
                                        !.exc = Exc("OMCSessionException",
                                                    "OMC Server did not start",
                                                    FALSE)]
                  /\ UNCHANGED << port, omc, port_file >>
             ELSE /\ frame' = SleepOnce(f, config.timeout, ConnectAttempts)
                  /\ UNCHANGED << port, omc, omc_log_file, port_file >>
    /\ UNCHANGED << config, omc_cache, omc_process, dockerCid, wire, reached,
                    dockerCidFile, omc_pid, cmd_vars >>

\* ask(question, opt, parsed): the look into the cache, and sendExpression
\* up to its first send attempt
AskCall ==
    /\ frame.at = "idle"
    /\ port # "None"
    /\ NAsked(reached) < MaxAsks
    /\ \E i \in 1..Len(AskInputs) :
         LET question == AskInputs[i][1]
             opt      == AskInputs[i][2]
             parsed   == AskInputs[i][3]
             p        == AskKey(question, opt, parsed)
             f        == [IdleFrame EXCEPT !.op = "ask", !.key = p,
                                           !.command = Expression(question, opt),
                                           !.parsed = parsed]
             r        == ReachedBy("ask", p)
         IN  IF CacheRead(config.readonly, question) /\ DictHas(omc_cache, p)
             THEN /\ frame' = [f EXCEPT !.at = "returned", !.hit = TRUE,
                                        !.result = DictGet(omc_cache, p)]
                  /\ reached' = ReachedSet([r EXCEPT !.n = @ + 1])
             ELSE /\ frame' = Enter(f)
                  /\ reached' = ReachedSet([r EXCEPT !.n = @ + 1,
                                                     !.calls = @ + 1])
    /\ UNCHANGED << config, omc_cache, omc, omc_process, omc_log_file,
                    dockerCid, port, wire, cmd_vars, file_vars, omc_pid >>

\* sendExpression("quit()") up to its first send attempt
QuitCall ==
    /\ frame.at = "idle"
    /\ port # "None"
    /\ NAsked(reached) < MaxAsks
    /\ LET p == AskKey(sQuit, PyNone, TRUE)
           r == ReachedBy("sendExpression", p)
       IN  /\ frame' = Enter([IdleFrame EXCEPT !.op = "sendExpression",
                                               !.key = p, !.command = sQuit,
                                               !.parsed = TRUE])
           /\ reached' = ReachedSet([r EXCEPT !.n = @ + 1, !.calls = @ + 1])
    /\ UNCHANGED << config, omc_cache, omc, omc_process, omc_log_file,
                    dockerCid, port, wire, cmd_vars, file_vars, omc_pid >>

\* a faulty variant of SendString: "quit()" leaves the socket open
SendString_QuitStaysOpen ==
    /\ frame.at = "send"
    /\ omc_process = "running"
    /\ wire' = [wire EXCEPT !.sent = @ + 1]
    /\ IF frame.command = sQuit
       THEN /\ omc' = omc
            /\ Returns([frame EXCEPT !.sends = @ + 1], NoneValue)
       ELSE /\ frame' = [frame EXCEPT !.at = "recv", !.sends = @ + 1]
            /\ UNCHANGED << omc, omc_cache, reached >>
    /\ UNCHANGED << config, omc_process, omc_log_file, dockerCid, port,
                    cmd_vars, file_vars, omc_pid >>

\* a faulty variant of SendString: no command waits for its reply
SendString_NoReply ==
    /\ frame.at = "send"
    /\ omc_process = "running"
    /\ wire' = [wire EXCEPT !.sent = @ + 1]
    /\ IF frame.command = sQuit
       THEN /\ omc' = "None"
            /\ Returns([frame EXCEPT !.sends = @ + 1], NoneValue)
       ELSE /\ omc' = omc
            /\ Returns([frame EXCEPT !.sends = @ + 1], NoneValue)
    /\ UNCHANGED << config, omc_process, omc_log_file, dockerCid, port,
                    cmd_vars, file_vars, omc_pid >>

\* send_string(..., flags=zmq.NOBLOCK) sends; "quit()" closes the socket
SendString ==
    /\ frame.at = "send"
    /\ omc_process = "running"
    /\ wire' = [wire EXCEPT !.sent = @ + 1]
    /\ IF frame.command = sQuit
       THEN /\ omc' = "None"
            /\ Returns([frame EXCEPT !.sends = @ + 1], NoneValue)
       ELSE /\ frame' = [frame EXCEPT !.at = "recv", !.sends = @ + 1]
            /\ UNCHANGED << omc, omc_cache, reached >>
    /\ UNCHANGED << config, omc_process, omc_log_file, dockerCid, port,
                    cmd_vars, file_vars, omc_pid >>

\* send_string raises zmq.error.Again
SendAgain ==
    /\ frame.at = "send"
    /\ LET f == [frame EXCEPT !.attempts = @ + 1]
       IN  IF SendExhausted(f.attempts)
           THEN IF omc_log_file.closed
                THEN /\ Raises(f, Exc("ValueError", "seek of closed file",
                                      FALSE))
                     /\ UNCHANGED omc_log_file
                ELSE /\ Raises(f, Exc("OMCSessionException",
                                      "No connection with OMC", TRUE))
                     /\ omc_log_file' =
                            [closed |-> TRUE,
                             closes |-> omc_log_file.closes + 1]
           ELSE /\ frame' = SleepOnce(f, config.timeout, SendAttempts)
                /\ UNCHANGED << omc_cache, reached, omc_log_file >>
    /\ UNCHANGED << config, omc, omc_process, dockerCid, port, wire,
                    cmd_vars, file_vars, omc_pid >>

\* result = self._omc.recv_string()
RecvString ==
    /\ frame.at = "recv"
    /\ wire' = [wire EXCEPT !.received = @ + 1]
    /\ \E r \in Replies :
         LET f == [frame EXCEPT !.recvs = @ + 1, !.reply = r]
         IN  IF f.parsed
             THEN /\ frame' = [f EXCEPT !.at = "typed"]
                  /\ UNCHANGED << omc_cache, reached >>
             ELSE Returns(f, Value("raw", r))
    /\ UNCHANGED << config, omc, omc_process, omc_log_file, dockerCid, port,
                    cmd_vars, file_vars, omc_pid >>

\* om_parser_typed(result)
ParserTyped ==
    /\ frame.at = "typed"
    /\ \E out \in TypedOutcomes :
         CASE out = "value" -> Returns(frame, Value("typed", frame.reply))
           [] out = "ParseException" ->
                /\ frame' = [frame EXCEPT
                                !.at = "basic",
                                !.warnings = Append(@, "OMTypedParser error")]
                /\ UNCHANGED << omc_cache, reached >>
           [] OTHER -> Raises(frame, Exc(out, "om_parser_typed", FALSE))
    /\ UNCHANGED << config, omc, omc_process, omc_log_file, dockerCid, port,
                    wire, cmd_vars, file_vars, omc_pid >>

\* om_parser_basic(result)
ParserBasic ==
    /\ frame.at = "basic"
    /\ \E out \in BasicOutcomes :
         CASE out = "value" -> Returns(frame, Value("basic", frame.reply))
           [] out \in { "TypeError", "UnboundLocalError" } ->
                Returns([frame EXCEPT
                            !.warnings = Append(@, "OMParser error")],
                        Value("raw", frame.reply))
           [] OTHER -> Raises(frame, Exc(out, "om_parser_basic", FALSE))
    /\ UNCHANGED << config, omc, omc_process, omc_log_file, dockerCid, port,
                    wire, cmd_vars, file_vars, omc_pid >>

\* the call is over; a session whose constructor raised is never used
Finish ==
    /\ frame.at \in { "returned", "raised" }
    /\ frame.op # "__del__"
    /\ ~ (frame.op = "init" /\ frame.at = "raised")
    /\ frame' = IdleFrame
    /\ UNCHANGED << config, omc_cache, omc, omc_process, omc_log_file,
                    dockerCid, port, wire, reached, cmd_vars, file_vars, omc_pid >>

\* the engine process exits
ProcessExits ==
    /\ omc_process = "running"
    /\ frame.at \notin { "cid", "top" }
    /\ omc_process' = "exited"
    /\ UNCHANGED << config, omc_cache, omc, omc_log_file, dockerCid, port,
                    frame, wire, reached, cmd_vars, file_vars, omc_pid >>

InitSession ==
    /\ args = << >>
    /\ arg_override = << >>
    /\ calls = << >>
    /\ target = Target(FALSE, FALSE, sRunpath)
    /\ cmd_prefix = << >>
    /\ data = << >>
    /\ bat = NoBat
    /\ NoSession

NextSession ==
    Construct \/ CidStep \/ TopStep \/ ConnectStep \/ AskCall \/ QuitCall
    \/ SendString \/ SendAgain \/ RecvString \/ ParserTyped \/ ParserBasic
    \/ Finish \/ ProcessExits

SpecSession == InitSession /\ [][NextSession]_vars

(***************************************************************************)
(* OMCSessionZMQ.__del__: the session is torn down, once, when no call is  *)
(* being made or when its constructor has raised.                          *)
(***************************************************************************)

\* the grace period of __del__: wait(timeout=2.0)
GracePeriod == 2

\* what self._omc_process is when it is not None: the Popen of the start,
\* or the DummyPopen that the loop on docker top has put in its place
ProcessKind ==
    IF (config.docker \/ config.dockerContainer)
         /\ (port # "None" \/ frame.via # "None")
    THEN "DummyPopen" ELSE "Popen"

\* __del__ up to the first send attempt of its sendExpression("quit()")
DelCall ==
    /\ \/ frame.at = "idle" /\ port # "None"
       \/ frame.op = "init" /\ frame.at = "raised"
    /\ frame' = Enter([IdleFrame EXCEPT !.op = "__del__",
                                        !.key = AskKey(sQuit, PyNone, TRUE),
                                        !.command = sQuit, !.parsed = TRUE,
                                        !.via = frame.via])
    /\ UNCHANGED << config, omc_cache, omc, omc_process, omc_log_file,
                    dockerCid, port, wire, reached, cmd_vars, file_vars, omc_pid >>

\* __del__ after its sendExpression: an OMCSessionException is passed
\* over, any other exception ends __del__; then the log file is closed
DelClose ==
    /\ frame.op = "__del__"
    /\ frame.at \in { "returned", "raised" }
    /\ IF frame.at = "raised" /\ frame.exc.type # "OMCSessionException"
       THEN /\ frame' = [frame EXCEPT !.at = "deleted"]
            /\ UNCHANGED omc_log_file
       ELSE /\ frame' = [frame EXCEPT !.at = "wait", !.exc = NoException]
            /\ omc_log_file' = [closed |-> TRUE,
                                closes |-> omc_log_file.closes + 1]
    /\ UNCHANGED << config, omc_cache, omc, omc_process, dockerCid, port,
                    wire, reached, cmd_vars, file_vars, omc_pid >>

\* __del__: self._omc_process.wait(timeout=2.0), and the kill that follows
\* a subprocess.TimeoutExpired; the wait of a DummyPopen raises the
\* TimeoutExpired of psutil
DelWait ==
    /\ frame.op = "__del__"
    /\ frame.at = "wait"
    /\ \E exits \in BOOLEAN :
         IF omc_process = "exited" \/ exits
         THEN /\ omc_process' = "exited"
              /\ frame' = [frame EXCEPT
                              !.at = "deleted",
                              !.slept = Slept(0, GracePeriod, 1)]
         ELSE IF ProcessKind = "Popen"
         THEN /\ omc_process' = "exited"
              /\ frame' = [frame EXCEPT
                              !.at = "deleted",
                              !.slept = Slept(1, GracePeriod, 1),
                              !.warnings = Append(@, "OMC did not exit")]
         ELSE /\ omc_process' = omc_process
              /\ frame' = [frame EXCEPT
                              !.at = "deleted",
                              !.slept = Slept(1, GracePeriod, 1),
                              !.exc = Exc("psutil.TimeoutExpired", "wait",
                                          FALSE)]
    /\ UNCHANGED << config, omc_cache, omc, omc_log_file, dockerCid, port,
                    wire, reached, cmd_vars, file_vars, omc_pid >>

NextTeardown == NextSession \/ DelCall \/ DelClose \/ DelWait

SpecTeardown == InitSession /\ [][NextTeardown]_vars

(***************************************************************************)
(* Vocabulary of the properties                                            *)
(***************************************************************************)

NCalls == Len(calls)
Last   == calls[NCalls]

\* the first and the second call of test_simflags
Scenario1 == ArgsSetInputs[1]
Scenario2 == ArgsSetInputs[2]

tNoEventEmit == << "-" >> \o sNoEventEmit
tNoRestart   == << "-" >> \o sNoRestart
tOverride(v) == << "-" >> \o kOverride \o << "=" >> \o v

IsArgsSetOf(c, items) == c.op = "args_set" /\ c.val.items = items

\* c is arg_set('override', mapping), or args_set({'override': mapping}),
\* which makes that one call
IsOverrideCall(c) ==
    \/ /\ c.op = "arg_set"
       /\ c.key.t = "str" /\ Strip(c.key.s) = kOverride
       /\ c.val.t = "dict"
    \/ /\ c.op = "args_set"
       /\ Len(c.val.items) = 1
       /\ c.val.items[1][1].t = "str" /\ Strip(c.val.items[1][1].s) = kOverride
       /\ c.val.items[1][2].t = "dict"

\* the items of the mapping of such a call
OverrideItems(c) ==
    IF c.op = "arg_set" THEN c.val.items ELSE c.val.items[1][2].items

\* every item of the mapping has a str key and a str, bool or number value
AllValues(items) ==
    \A i \in 1..Len(items) :
        items[i][1].t = "str" /\ items[i][2].t \in {"str", "bool", "int"}

KeySet(d) == {d[i][1] : i \in 1..Len(d)}

ItemKeys(items) == {items[i][1] : i \in 1..Len(items)}

\* s.split(','), and the entries of an override value (none when empty)
RECURSIVE SplitComma(_)
SplitComma(s) ==
    IF \E i \in 1..Len(s) : s[i] = ","
    THEN LET i == CHOOSE i \in 1..Len(s) :
                      s[i] = "," /\ \A j \in 1..(i - 1) : s[j] # ","
         IN  << SubSeq(s, 1, i - 1) >> \o SplitComma(SubSeq(s, i + 1, Len(s)))
    ELSE << s >>

Entries(s) == IF s = << >> THEN << >> ELSE SplitComma(s)

StartsWith(s, p) == Len(s) >= Len(p) /\ SubSeq(s, 1, Len(p)) = p

\* the token of the pair p = <<key, value>>: -key, or -key=value
TokenFor(p) ==
    IF p[2].t = "None" THEN << "-" >> \o p[1]
    ELSE << "-" >> \o p[1] \o << "=" >> \o p[2].s

\* toks holds one token per key of a, in ascending order of the keys
TokensOf(a, toks) ==
    LET Rank(k) == Cardinality({j \in KeySet(a) : StrLess(j, k)}) + 1
    IN  /\ Len(toks) = Len(a)
        /\ Cardinality(KeySet(a)) = Len(a)
        /\ \A i \in 1..Len(a) : toks[Rank(a[i][1])] = TokenFor(a[i])

\* l holds every entry of the map d once, ascending by Less
JoinedBy(d, l, Less(_, _)) ==
    /\ Len(l) = Len(d)
    /\ \A i \in 1..Len(d) : \E j \in 1..Len(l) : l[j] = d[i][2]
    /\ \A i, j \in 1..Len(d) :
         Less(d[i], d[j]) =>
             \E m, n \in 1..Len(l) : m < n /\ l[m] = d[i][2] /\ l[n] = d[j][2]

ByKey(p, q)   == StrLess(p[1], q[1])
ByEntry(p, q) == StrLess(p[2], q[2])

ProperPrefix(s, u) == Len(s) < Len(u) /\ SubSeq(u, 1, Len(s)) = s

\* arg_set for every successful arg_set call of cs in turn, from state st
RECURSIVE ReplayOk(_, _)
ReplayOk(st, cs) ==
    IF cs = << >> THEN st
    ELSE IF Head(cs).op = "arg_set" /\ Head(cs).ok
         THEN ReplayOk(LET r == ArgSet(st, Head(cs).key, Head(cs).val)
                       IN  [args |-> r.args, arg_override |-> r.arg_override],
                       Tail(cs))
         ELSE ReplayOk(st, Tail(cs))

(***************************************************************************)
(* Properties                                                              *)
(***************************************************************************)

\* C1: whatever calls built the argument set, get_cmd_args() returns one
\* token per stored key, in ascending key order, -key for a key without a
\* value and -key=value for a key with one; after the first call of
\* test_simflags it returns -noEventEmit, -noRestart, -override=a=4,b=2.
C1_GetCmdArgsTokens ==
    (NCalls > 0 /\ Last.op = "get_cmd_args") =>
        /\ TokensOf(args, Last.ret)
        /\ (NCalls = 2 /\ IsArgsSetOf(calls[1], Scenario1)) =>
               Last.ret = << tNoEventEmit, tNoRestart,
                             tOverride(<< "a", "=", "4", ",", "b", "=", "2" >>) >>

C1_Witness ==
    /\ NCalls = 2
    /\ IsArgsSetOf(calls[1], Scenario1)
    /\ Last.op = "get_cmd_args"
    /\ Len(Last.ret) = 3

\* C2: arg_set('override', {k: None}) for a k that is set removes k and
\* nothing else: the override value has no entry k=..., every other
\* sub-key keeps its entry, and the other arguments are as before; after
\* the two calls of test_simflags the tokens are -noEventEmit, -noRestart,
\* -override=a=4.
C2_RemoveSubKey ==
    (/\ NCalls > 0
     /\ IsOverrideCall(Last)
     /\ Len(OverrideItems(Last)) = 1
     /\ OverrideItems(Last)[1][1].t = "str"
     /\ OverrideItems(Last)[1][2].t = "None"
     /\ DictHas(Last.pre.arg_override, OverrideItems(Last)[1][1].s)) =>
        LET k   == OverrideItems(Last)[1][1].s
            was == Last.pre.arg_override
            now == Entries(DictGet(args, kOverride).s)
        IN  /\ Last.ok
            /\ ~DictHas(arg_override, k)
            /\ \A i \in 1..Len(now) : ~StartsWith(now[i], k \o << "=" >>)
            /\ KeySet(arg_override) = KeySet(was) \ {k}
            /\ \A j \in KeySet(arg_override) :
                 /\ DictGet(arg_override, j) = DictGet(was, j)
                 /\ \E i \in 1..Len(now) : now[i] = DictGet(was, j)
            /\ Len(now) = Len(was) - 1
            /\ KeySet(args) \ {kOverride} = KeySet(Last.pre.args) \ {kOverride}
            /\ \A j \in KeySet(args) \ {kOverride} :
                 DictGet(args, j) = DictGet(Last.pre.args, j)
            /\ (NCalls = 2 /\ IsArgsSetOf(calls[1], Scenario1)
                           /\ IsArgsSetOf(calls[2], Scenario2)) =>
                   GetCmdArgs(args) = << tNoEventEmit, tNoRestart,
                                         tOverride(<< "a", "=", "4" >>) >>

C2_Witness ==
    /\ NCalls = 2
    /\ IsArgsSetOf(calls[1], Scenario1)
    /\ IsArgsSetOf(calls[2], Scenario2)
    /\ Last.ok
    /\ KeySet(arg_override) = {sA}

\* C3: two arg_set('override', ...) calls with mappings m1 and m2 of
\* disjoint sub-keys and values other than None leave the same
\* get_cmd_args() as the one call with the mapping of both; {a: 1} and then
\* {b: 2} on a new object give -override=a=1,b=2.
C3_MergeAcrossCalls ==
    (/\ NCalls >= 2
     /\ IsOverrideCall(calls[NCalls - 1]) /\ IsOverrideCall(Last)
     /\ AllValues(OverrideItems(calls[NCalls - 1]))
     /\ AllValues(OverrideItems(Last))
     /\ ItemKeys(OverrideItems(calls[NCalls - 1]))
            \cap ItemKeys(OverrideItems(Last)) = {}) =>
        LET m1 == OverrideItems(calls[NCalls - 1])
            m2 == OverrideItems(Last)
            st == calls[NCalls - 1].pre
        IN  /\ calls[NCalls - 1].ok /\ Last.ok
            /\ GetCmdArgs(args) =
                   GetCmdArgs(ArgSet(st, PyStr(kOverride), PyDict(m1 \o m2)).args)
            /\ GetCmdArgs(args) =
                   GetCmdArgs(ArgSet(st, PyStr(kOverride), PyDict(m2 \o m1)).args)
            /\ (NCalls = 2 /\ m1 = << << PyStr(sA), PyInt(1) >> >>
                           /\ m2 = << << PyStr(sB), PyInt(2) >> >>) =>
                   GetCmdArgs(args) =
                       << tOverride(<< "a", "=", "1", ",", "b", "=", "2" >>) >>

C3_Witness ==
    /\ NCalls = 2
    /\ IsOverrideCall(calls[1]) /\ IsOverrideCall(calls[2])
    /\ OverrideItems(calls[1]) = << << PyStr(sA), PyInt(1) >> >>
    /\ OverrideItems(calls[2]) = << << PyStr(sB), PyInt(2) >> >>
    /\ GetCmdArgs(args) = << tOverride(<< "a", "=", "1", ",", "b", "=", "2" >>) >>

\* C4: arg_set('override', {k: None}) for a k that the override map does
\* not hold leaves get_cmd_args() as it was before the call.
C4_RemoveAbsentIsNoOp ==
    (/\ NCalls > 0
     /\ IsOverrideCall(Last)
     /\ Len(OverrideItems(Last)) = 1
     /\ OverrideItems(Last)[1][1].t = "str"
     /\ OverrideItems(Last)[1][2].t = "None"
     /\ ~DictHas(Last.pre.arg_override, OverrideItems(Last)[1][1].s)) =>
        GetCmdArgs(args) = GetCmdArgs(Last.pre.args)

C6_GetCmdArgsPure ==
    (NCalls > 0 /\ Last.op = "get_cmd_args") =>
        /\ args = Last.pre.args
        /\ arg_override = Last.pre.arg_override
        /\ Len(Last.ret) = Len(args)
        /\ \A i \in 1..(Len(Last.ret) - 1) :
             \E m, n \in 1..Len(args) :
                 /\ Last.ret[i] = TokenFor(args[m])
                 /\ Last.ret[i + 1] = TokenFor(args[n])
                 /\ StrLess(args[m][1], args[n][1])
        /\ (NCalls > 1 /\ calls[NCalls - 1].op = "get_cmd_args") =>
               Last.ret = calls[NCalls - 1].ret

C6_Witness ==
    /\ NCalls = 3
    /\ calls[2].op = "get_cmd_args" /\ calls[3].op = "get_cmd_args"
    /\ Len(args) = 3 /\ Len(arg_override) = 2
    /\ Len(Last.ret) = 3

\* C7: arg_set raises when the key is no string or is empty after
\* stripping, so no empty key is stored and no token is - or starts -=.
C7_EmptyKeyRejected ==
    /\ (NCalls > 0 /\ Last.op = "arg_set"
          /\ (Last.key.t # "str" \/ Strip(Last.key.s) = << >>)) => ~Last.ok
    /\ << >> \notin KeySet(args)
    /\ \A i \in 1..Len(args) :
         GetCmdArgs(args)[i] # << "-" >> /\ ~StartsWith(GetCmdArgs(args)[i], << "-", "=" >>)

\* C8: an arg_set call that raises leaves get_cmd_args() as it was, and
\* after later calls get_cmd_args() is what the successful calls alone
\* give.
C8_FailedCallChangesNothing ==
    /\ (NCalls > 0 /\ Last.op = "arg_set" /\ ~Last.ok) =>
           GetCmdArgs(args) = GetCmdArgs(Last.pre.args)
    /\ (\A i \in 1..NCalls : calls[i].op # "args_set") =>
           GetCmdArgs(args) =
               GetCmdArgs(ReplayOk([args |-> << >>, arg_override |-> << >>],
                                   calls).args)

\* C9: arg_set with a mapping for a key other than 'override' raises and
\* stores nothing; a mapping is taken for the key 'override' only.
C9_MappingOnlyForOverride ==
    (NCalls > 0 /\ Last.op = "arg_set" /\ Last.val.t = "dict") =>
        /\ (Last.key.t # "str" \/ Strip(Last.key.s) # kOverride) =>
               /\ ~Last.ok
               /\ args = Last.pre.args
               /\ arg_override = Last.pre.arg_override
        /\ Last.ok => (Last.key.t = "str" /\ Strip(Last.key.s) = kOverride)

C9_Witness ==
    /\ NCalls = 2 /\ Last.op = "arg_set" /\ Last.val.t = "dict"
    /\ Last.key = PyStr(sR)
    /\ ~Last.ok
    /\ Len(args) = 1

\* what the strings of the calls denote, and how a value is to be rendered
Denoted(v) ==
    IF v = PyStr(Padded(<< "4" >>)) THEN PyInt(4)
    ELSE IF v = PyStr(sTrue) THEN PyBool(TRUE)
    ELSE v

Rendered(v) ==
    IF v.t = "bool" THEN (IF v.b THEN << "t", "r", "u", "e" >>
                                 ELSE << "f", "a", "l", "s", "e" >>)
    ELSE IF v.t = "int" THEN IntStr(v.n)
    ELSE Strip(v.s)

\* C10: an override value given as a string that denotes a number or a
\* boolean is rendered as that number or boolean is: ' 4 ' and 4 give a=4,
\* 'True' and True give b=true; a boolean is rendered true or false and a
\* number by str().
C10_OverrideValueNormalized ==
    (NCalls > 0 /\ IsOverrideCall(Last) /\ Last.ok) =>
        LET items == OverrideItems(Last)
        IN  /\ \A i \in 1..Len(items) :
                 items[i][2].t # "None" =>
                     DictGet(arg_override, items[i][1].s) =
                         items[i][1].s \o << "=" >> \o Rendered(Denoted(items[i][2]))
            /\ \A i \in 1..Len(items) :
                 /\ items[i][2] \in {PyStr(Padded(<< "4" >>)), PyInt(4)} =>
                        DictGet(arg_override, items[i][1].s) =
                            items[i][1].s \o << "=", "4" >>
                 /\ items[i][2] \in {PyStr(sTrue), PyBool(TRUE)} =>
                        DictGet(arg_override, items[i][1].s) =
                            items[i][1].s \o << "=", "t", "r", "u", "e" >>

C10_Witness ==
    /\ NCalls = 2
    /\ IsOverrideCall(calls[1]) /\ IsOverrideCall(calls[2])
    /\ OverrideItems(calls[1]) = << << PyStr(sA), PyStr(Padded(<< "4" >>)) >>,
                                    << PyStr(sB), PyBool(TRUE) >> >>
    /\ OverrideItems(calls[2]) = << << PyStr(sA), PyInt(4) >>,
                                    << PyStr(sB), PyStr(sTrue) >> >>
    /\ arg_override = calls[2].pre.arg_override
    /\ DictGet(args, kOverride).s =
           << "a", "=", "4", ",", "b", "=", "t", "r", "u", "e" >>


\* the stored form of a scalar value: None, the stripped str, str(number)
Normalized(v) ==
    IF v.t = "None" THEN PyNone
    ELSE IF v.t = "str" THEN PyStr(Strip(v.s))
    ELSE PyStr(NumberStr(v))

IsScalar(v) == v.t \in {"None", "str", "int", "bool"}

\* c is a successful arg_set(key, v) with a scalar v and a key other than
\* 'override'
IsScalarSet(c) ==
    /\ c.op = "arg_set" /\ c.ok
    /\ c.key.t = "str" /\ Strip(c.key.s) # kOverride
    /\ IsScalar(c.val)

\* the log holds a warning that names the key k and the value it had
Warned(log, k, was) ==
    \E i \in 1..Len(log) :
        log[i].level = "warning" /\ log[i].key = k /\ log[i].was = was

NEntries(a, k) == Cardinality({i \in 1..Len(a) : a[i][1] = k})

\* C11: after arg_set(k, v1) and then arg_set(k, v2) for a key k other than
\* 'override', there is exactly one entry for k, its value is the
\* normalized v2, and the second call logged a warning naming the
\* normalized v1; and no call of any kind changes or replaces the value of
\* a stored key without a warning that names the key and the value it had
\* (nor does a key ever vanish).
C11_ResetReplacesAndWarns ==
    NCalls > 0 =>
        /\ (/\ NCalls > 1
            /\ IsScalarSet(Last) /\ IsScalarSet(calls[NCalls - 1])
            /\ Strip(Last.key.s) = Strip(calls[NCalls - 1].key.s)) =>
               /\ NEntries(args, Strip(Last.key.s)) = 1
               /\ DictGet(args, Strip(Last.key.s)) = Normalized(Last.val)
               /\ Warned(Last.log, Strip(Last.key.s),
                         Normalized(calls[NCalls - 1].val))
        /\ \A i \in 1..Len(Last.pre.args) :
               LET k == Last.pre.args[i][1]
               IN  /\ DictHas(args, k)
                   /\ DictGet(args, k) # Last.pre.args[i][2] =>
                          Warned(Last.log, k, Last.pre.args[i][2])
        /\ (/\ Last.op = "arg_set" /\ Last.ok
            /\ DictHas(Last.pre.args, Strip(Last.key.s))) =>
               Warned(Last.log, Strip(Last.key.s),
                      DictGet(Last.pre.args, Strip(Last.key.s)))

\* a key is set twice with different values, the first one with blanks
C11_Witness ==
    /\ NCalls > 1
    /\ IsScalarSet(Last) /\ IsScalarSet(calls[NCalls - 1])
    /\ Strip(Last.key.s) = Strip(calls[NCalls - 1].key.s)
    /\ Last.key # calls[NCalls - 1].key
    /\ Normalized(Last.val) # Normalized(calls[NCalls - 1].val)
    /\ Len(Last.log) = 1


\* C12: arg_get(key) never raises and changes nothing; it returns None for
\* a key that is not set; and directly after a successful arg_set(k, v)
\* with a scalar v, arg_get(k) with the same string k returns the value
\* stored for the argument, the normalized v, also for a k with blanks
\* around it.
C12_ArgGetReturnsStored ==
    (NCalls > 0 /\ Last.op = "arg_get") =>
        /\ Last.ok
        /\ State = Last.pre
        /\ (Last.key.t = "str" /\ ~DictHas(args, Strip(Last.key.s))) =>
               Last.ret = PyNone
        /\ (/\ NCalls > 1
            /\ calls[NCalls - 1].op = "arg_set" /\ calls[NCalls - 1].ok
            /\ IsScalar(calls[NCalls - 1].val)
            /\ calls[NCalls - 1].key = Last.key) =>
               /\ Last.ret = DictGet(args, Strip(Last.key.s))
               /\ Last.ret = Normalized(calls[NCalls - 1].val)


\* the prefix tokens as they were given to ModelExecutionCmd: what the
\* list held when definition() was first called
FirstDefinition ==
    CHOOSE i \in 1..NCalls :
        calls[i].op = "definition" /\ \A j \in 1..(i - 1) : calls[j].op # "definition"

EnvPrefix == calls[FirstDefinition].pre_prefix

\* prefix tokens, executable path, serialized arguments of a descriptor
CommandOf(d) == EnvPrefix \o << d.cmd_model_executable >> \o d.cmd_args

\* C13: every get_cmd(), also the one inside run(), gives the prefix
\* tokens given to ModelExecutionCmd, then the executable path, then the
\* descriptor's arguments; the call changes no descriptor and not the
\* prefix list; and the command of a descriptor that definition() has just
\* made is these prefix tokens, its executable path, its arguments.
C13_GetCmdRepeatable ==
    NCalls > 0 =>
        /\ Last.op \in {"get_cmd", "run"} =>
               /\ Last.cmdl = CommandOf(data[Last.d])
               /\ data = Last.pre_data
               /\ cmd_prefix = Last.pre_prefix
        /\ (Last.op = "definition" /\ Last.ok) =>
               GetCmd(cmd_prefix, Last.ret) = CommandOf(Last.ret)


IsRun(c) == c.op = "run"

IsModelExecutionException(c) ==
    ~c.ok /\ c.exc.type = "ModelExecutionException"

\* C14: run() on a descriptor whose executable does not exist raises
\* ModelExecutionException, on a local target and on one with a prefix, on
\* the first call and on every later one.
C14_MissingExecutableRaises ==
    (NCalls > 0 /\ IsRun(Last) /\ ~Last.child.exists) =>
        IsModelExecutionException(Last)

\* the child process of the call was started and ended before the timeout
ChildExited(c) ==
    IsRun(c) /\ c.exc.type # "FileNotFoundError" /\ ~c.child.timedout

\* the message of the raised error holds what the child wrote to stderr
\* (stripped), resp. the exit code
SaysStderr(c) ==
    /\ c.exc.tail.text = "stderr"
    /\ c.exc.tail.stderr = Strip(c.child.stderr)
SaysExitCode(c) ==
    /\ c.exc.tail.text = "Command returned non-zero exit status"
    /\ c.exc.tail.returncode = c.child.code

\* C15: whenever the child wrote anything to stderr, run() raises
\* ModelExecutionException whose message holds that output, also for exit
\* code 0 within the timeout; run() returns only if nothing was written to
\* stderr.
C15_StderrRaises ==
    (NCalls > 0 /\ IsRun(Last) /\ Last.exc.type # "FileNotFoundError") =>
        /\ Last.child.stderr # << >> =>
               IsModelExecutionException(Last) /\ SaysStderr(Last)
        /\ Last.ok => Last.child.stderr = << >>

\* C16: when the child exits with a code other than 0, run() raises
\* ModelExecutionException whose message holds the exit code and, if the
\* child wrote to stderr, that output too; and whenever run() returns, it
\* returns the exit code 0.
C16_ExitCodeAndStderr ==
    (NCalls > 0 /\ IsRun(Last)) =>
        /\ (ChildExited(Last) /\ Last.child.code # 0) =>
               /\ IsModelExecutionException(Last)
               /\ SaysExitCode(Last)
               /\ Last.child.stderr # << >> => SaysStderr(Last)
        /\ Last.ok => Last.ret = PyInt(0) /\ Last.child.code = 0

\* C17: when the child is still running at cmd_timeout, run() raises
\* ModelExecutionException whose message starts with Timeout and holds
\* str() of the TimeoutExpired with the descriptor's cmd_timeout, and never
\* returns; the error for an exit code other than 0 and the error for
\* stderr output start with Error.
C17_TimeoutDistinguished ==
    (NCalls > 0 /\ IsRun(Last)) =>
        /\ Last.child.timedout =>
               /\ IsModelExecutionException(Last)
               /\ Last.exc.head = "Timeout"
               /\ Last.exc.tail.text = "Command timed out after seconds"
               /\ Last.exc.tail.timeout = data[Last.d].cmd_timeout
               /\ Last.exc.cause.type = "TimeoutExpired"
        /\ (IsModelExecutionException(Last) /\ ~Last.child.timedout) =>
               /\ Last.exc.head = "Error"
               /\ Last.exc.cause.type # "TimeoutExpired"

\* a run that timed out after the child had written to stderr
C17_Witness ==
    /\ NCalls > 0 /\ IsRun(Last)
    /\ Last.child.timedout /\ Last.child.stderr # << >>
    /\ ~Last.ok /\ Last.exc.head = "Timeout"

sDefaultMat == << "/", "w", "/", "M", ".", "m", "a", "t" >>
sExeLocalWindows == << "/", "w", "/", "M", ".", "e", "x", "e" >>
sExeOther == << "/", "w", "/", "M" >>

\* C18: the descriptor's cmd_result_file is the value of the argument r as
\* stored at the time of definition() if that is a string, and
\* <workdir>/<model-name>.mat if r is not set or set without a value;
\* definition() leaves the stored arguments as they are, whether it
\* returns or raises.
C18_ResultFile ==
    (NCalls > 0 /\ Last.op = "definition") =>
        /\ State = Last.pre
        /\ Last.ok =>
               IF DictHas(args, sR) /\ DictGet(args, sR).t = "str"
               THEN Last.ret.cmd_result_file = DictGet(args, sR).s
               ELSE Last.ret.cmd_result_file = sDefaultMat

\* definition() before and after arg_set(' r ', ' x '): the default, then x
C18_Witness ==
    /\ NCalls = 3 /\ Last.op = "definition" /\ Last.ok
    /\ calls[1].op = "definition" /\ calls[1].ok
    /\ calls[1].ret.cmd_result_file = sDefaultMat
    /\ Last.ret.cmd_result_file = sX
    /\ data[1].cmd_result_file = sDefaultMat

\* C19: the executable path is <workdir>/<model-name>.exe exactly on a
\* local Windows target and <workdir>/<model-name> on the three others;
\* cmd_library_path is a string exactly on a local Windows target and None
\* on the others; cmd_cwd_local is the work directory exactly on a local
\* target and None on the others.
C19_TargetFields ==
    (NCalls > 0 /\ Last.op = "definition" /\ Last.ok) =>
        /\ Last.ret.cmd_model_executable =
               IF target.cmd_local /\ target.cmd_windows
               THEN sExeLocalWindows ELSE sExeOther
        /\ (Last.ret.cmd_library_path.t = "str") =
               (target.cmd_local /\ target.cmd_windows)
        /\ (Last.ret.cmd_library_path.t = "None") =
               ~(target.cmd_local /\ target.cmd_windows)
        /\ Last.ret.cmd_cwd_local =
               IF target.cmd_local THEN PyStr(sRunpath) ELSE PyNone

\* a local Windows target whose batch file has SET PATH lines: the last
\* one gives the library path
C19_Witness ==
    /\ NCalls > 0 /\ Last.op = "definition" /\ Last.ok
    /\ target.cmd_local /\ target.cmd_windows
    /\ Last.ret.cmd_library_path = PyStr(<< "/", "l" >>)
    /\ Last.ret.cmd_model_executable = sExeLocalWindows

\* C20: definition() raises ModelExecutionException and makes no
\* descriptor on a local Windows target without the batch file; on every
\* other target, and with the batch file, it returns a descriptor, which
\* on the other targets is the same with and without the batch file.
C20_BatchFileRequired ==
    (NCalls > 0 /\ Last.op = "definition") =>
        IF target.cmd_local /\ target.cmd_windows /\ ~bat.is_file
        THEN /\ IsModelExecutionException(Last)
             /\ data = Last.pre_data
             /\ Last.ret = PyNone
        ELSE /\ Last.ok
             /\ data = Append(Last.pre_data, Last.ret)
             /\ ~(target.cmd_local /\ target.cmd_windows) =>
                    Last.ret = ModelExecutionData(target, args, NoBat)

\* definition() has raised on a local Windows target without batch file
C20_Witness ==
    /\ NCalls > 0 /\ Last.op = "definition" /\ ~Last.ok
    /\ target.cmd_local /\ target.cmd_windows /\ ~bat.is_file
    /\ data = << >>

(***************************************************************************)
(* Vocabulary of the properties of the session                             *)
(***************************************************************************)

\* a call of ask or sendExpression is being made or has just ended
InCall == frame.op \in { "ask", "sendExpression" }

\* the call has ended in the send loop: every attempt gave zmq.error.Again
SendGaveUp ==
    /\ InCall /\ frame.at = "raised"
    /\ frame.attempts > 0 /\ frame.sends = 0

\* n sleeps of timeout / attempts each have been made
HasSlept(n, attempts) ==
    /\ frame.slept.n = n
    /\ n > 0 => (frame.slept.num = config.timeout
                 /\ frame.slept.den = attempts)

\* the state of the transport: Disconnected until the constructor has
\* connected the socket, Closed once quit() has closed it
Transport ==
    IF omc = "None"
    THEN (IF port = "None" THEN "Disconnected" ELSE "Closed")
    ELSE IF InCall /\ frame.at = "send" THEN "Sending"
    ELSE IF InCall /\ frame.at = "recv" THEN "AwaitingReply"
    ELSE "Connected"

\* this step sends quit() and closes the socket, with nothing received
QuitCloses ==
    /\ frame.command = sQuit
    /\ wire'.sent = wire.sent + 1
    /\ wire'.received = wire.received
    /\ frame'.at = "returned" /\ frame'.recvs = 0
    /\ omc' = "None"

\* this step ends a call in the send loop: the attempts are used up
GivesUp ==
    /\ frame'.at = "raised"
    /\ frame'.attempts = 50 /\ frame'.sends = 0
    /\ wire' = wire
    /\ omc' = omc

(***************************************************************************)
(* Properties of the session                                               *)
(***************************************************************************)

\* C21: when every non-blocking send reports 'would block', sendExpression
\* raises OMCSessionException after exactly 50 send attempts, having slept
\* timeout/50 between consecutive attempts and received nothing; in the
\* loop fewer than 50 attempts have failed, with one sleep after each.
C21_SendBudget ==
    /\ (InCall /\ frame.at = "send") =>
           /\ frame.attempts < 50
           /\ HasSlept(frame.attempts, 50)
    /\ SendGaveUp =>
           /\ frame.attempts = 50
           /\ HasSlept(49, 50)
           /\ frame.recvs = 0
           /\ frame.exc.type = "OMCSessionException"

\* C22: the successful sends are never more than one ahead of the
\* receives; no send is attempted while a reply is outstanding; a receive
\* follows the one send of its call; and a sendExpression of a command
\* other than quit() that returns has sent once and received once.
C22_SingleFlight ==
    /\ wire.sent - wire.received \in { 0, 1 }
    /\ (InCall /\ frame.at = "send") =>
           /\ wire.sent = wire.received
           /\ frame.sends = 0 /\ frame.recvs = 0
    /\ (InCall /\ frame.at = "recv") =>
           /\ wire.sent = wire.received + 1
           /\ frame.sends = 1 /\ frame.recvs = 0
    /\ (InCall /\ frame.at = "returned" /\ frame.called
          /\ frame.command # sQuit) =>
           /\ wire.sent = wire.received
           /\ frame.sends = 1 /\ frame.recvs = 1

\* the second command of a session has been sent and answered
C22_Witness ==
    /\ InCall /\ frame.at = "returned" /\ frame.called
    /\ frame.command # sQuit
    /\ frame.sends = 1 /\ frame.recvs = 1
    /\ wire.sent = 2 /\ wire.received = 2

\* C23: the transport only goes Disconnected -> Connected -> Sending ->
\* AwaitingReply -> Connected, or Sending -> Closed; it becomes Closed by
\* the successful send of quit(), with no receive; and once Closed it
\* stays Closed and nothing is sent or received.
C23_StatesAsClaimed ==
    [][ /\ Transport' # Transport =>
             << Transport, Transport' >> \in
                 { << "Disconnected", "Connected" >>,
                   << "Connected", "Sending" >>,
                   << "Sending", "AwaitingReply" >>,
                   << "AwaitingReply", "Connected" >>,
                   << "Sending", "Closed" >> }
        /\ (Transport' = "Closed" /\ Transport # "Closed") => QuitCloses
        /\ Transport = "Closed" => (Transport' = "Closed" /\ wire' = wire)
      ]_vars

\* C23, amended: as C23_StatesAsClaimed, and the transport also goes
\* Sending -> Connected, when the send attempts of a call are used up.
C23_QuitCloses ==
    [][ /\ Transport' # Transport =>
             \/ << Transport, Transport' >> \in
                    { << "Disconnected", "Connected" >>,
                      << "Connected", "Sending" >>,
                      << "Sending", "AwaitingReply" >>,
                      << "AwaitingReply", "Connected" >>,
                      << "Sending", "Closed" >> }
             \/ /\ << Transport, Transport' >> = << "Sending", "Connected" >>
                /\ GivesUp
        /\ (Transport' = "Closed" /\ Transport # "Closed") => QuitCloses
        /\ Transport = "Closed" => (Transport' = "Closed" /\ wire' = wire)
      ]_vars

\* quit() has closed the socket, and a later call on the session has
\* ended without a send
C23_Witness ==
    /\ Transport = "Closed"
    /\ InCall /\ frame.at = "raised" /\ frame.command # sQuit
    /\ frame.sends = 0 /\ frame.attempts = 0
    /\ wire.sent = wire.received + 1

\* C24: a call makes a send attempt, sends or receives only after its poll
\* has found the engine process running; a call whose poll finds the
\* process exited raises OMCSessionException with no send attempt, no send
\* and no receive.
C24_PollBeforeSend ==
    /\ (InCall /\ frame.at \in { "send", "recv", "typed", "basic" }) =>
           frame.polled = "running"
    /\ (InCall /\ (frame.attempts > 0 \/ frame.sends > 0
                     \/ frame.recvs > 0)) =>
           frame.polled = "running"
    /\ (InCall /\ frame.called /\ frame.polled # "running") =>
           /\ frame.at = "raised"
           /\ frame.exc.type = "OMCSessionException"
           /\ frame.exc.text = "Process Exited"
           /\ frame.attempts = 0 /\ frame.sends = 0 /\ frame.recvs = 0

\* the engine has answered one call and has exited before the next, which
\* raises without a send attempt
C24_Witness ==
    /\ InCall /\ frame.called /\ frame.polled = "exited"
    /\ frame.at = "raised" /\ frame.attempts = 0
    /\ omc = "socket"
    /\ wire.sent = 1 /\ wire.received = 1

\* what the properties of the cache of a read-only session share: an ask
\* served from the cache does not go into sendExpression and returns the
\* stored value; any other ask goes into sendExpression once, finds nothing
\* stored for its tuple, and has stored its result when it returns.
\* getErrorString is left out.
HitsAndMisses ==
    (frame.op = "ask" /\ frame.key.question # sGetErrorString) =>
        /\ frame.hit =>
               /\ ~frame.called /\ frame.at = "returned"
               /\ frame.attempts = 0 /\ frame.sends = 0 /\ frame.recvs = 0
               /\ DictHas(omc_cache, frame.key)
               /\ frame.result = DictGet(omc_cache, frame.key)
        /\ ~frame.hit =>
               /\ frame.called
               /\ ReachedBy("ask", frame.key).calls
                      <= ReachedBy("ask", frame.key).n
               /\ frame.at # "returned" => ~DictHas(omc_cache, frame.key)
               /\ frame.at = "returned" =>
                      /\ DictHas(omc_cache, frame.key)
                      /\ DictGet(omc_cache, frame.key) = frame.result

\* C25: in a read-only session an ask whose tuple was answered before
\* returns the stored value without a sendExpression, an ask that misses
\* makes one sendExpression and stores its result, and no tuple other than
\* getErrorString goes into sendExpression more than once.
C25_AtMostOnce ==
    config.readonly =>
        /\ HitsAndMisses
        /\ \A i \in 1..Len(reached) :
             (reached[i].op = "ask"
                /\ reached[i].key.question # sGetErrorString) =>
                 reached[i].calls <= 1

\* C25, amended: as C25_AtMostOnce, but for no tuple other than
\* getErrorString more than one sendExpression returns: a sendExpression
\* that raises stores nothing, and the next ask of the tuple makes another.
C25_ReadOnlyCache ==
    config.readonly =>
        /\ HitsAndMisses
        /\ \A i \in 1..Len(reached) :
             (reached[i].op = "ask"
                /\ reached[i].key.question # sGetErrorString) =>
                 /\ reached[i].returned <= 1
                 /\ DictHas(omc_cache, reached[i].key)
                        <=> reached[i].returned = 1

\* in a read-only session the first ask of a tuple has raised, and the
\* second has been sent, answered and stored
C25_Witness ==
    /\ config.readonly
    /\ frame.op = "ask" /\ frame.key.question # sGetErrorString
    /\ frame.called /\ frame.at = "returned"
    /\ ReachedBy("ask", frame.key).calls = 2
    /\ ReachedBy("ask", frame.key).returned = 1
    /\ DictGet(omc_cache, frame.key) = frame.result

\* C26: in every session mode an ask of getErrorString is not served from
\* the cache: it goes into sendExpression, and when it returns it has sent
\* once, received once and returns the reply of that receive; and the
\* cache holds no entry whose question is getErrorString.
C26_GetErrorStringNotCached ==
    /\ (frame.op = "ask" /\ frame.key.question = sGetErrorString) =>
           /\ ~frame.hit /\ frame.called
           /\ frame.at = "returned" =>
                  /\ frame.sends = 1 /\ frame.recvs = 1
                  /\ frame.result.of = frame.reply
    /\ \A i \in 1..Len(omc_cache) :
           omc_cache[i][1].question # sGetErrorString

\* C27: in a session that is not read-only no ask is served from the
\* cache, every ask goes into sendExpression, and the cache stays empty.
C27_CacheOnlyWhenReadOnly ==
    ~config.readonly =>
        /\ frame.op = "ask" => (~frame.hit /\ frame.called)
        /\ omc_cache = << >>

\* C28: once the reply is received the call does not raise; with
\* parsed=True it returns what om_parser_typed gives, or after one warning
\* what om_parser_basic gives, or after two warnings the reply as it came;
\* with parsed=False it returns the reply as it came, no decoder runs and
\* nothing is logged.
C28_DecodingNeverFails ==
    (InCall /\ frame.called /\ frame.recvs = 1) =>
        /\ frame.at # "raised"
        /\ frame.at \in { "typed", "basic" } => frame.parsed
        /\ frame.at = "returned" =>
               /\ frame.result.of = frame.reply
               /\ ~frame.parsed =>
                      /\ frame.result.kind = "raw"
                      /\ frame.warnings = << >>
               /\ frame.parsed =>
                      CASE frame.result.kind = "typed" ->
                               frame.warnings = << >>
                        [] frame.result.kind = "basic" ->
                               frame.warnings = << "OMTypedParser error" >>
                        [] OTHER ->
                               /\ frame.result.kind = "raw"
                               /\ frame.warnings = << "OMTypedParser error",
                                                      "OMParser error" >>

\* the constructor is in, or has raised from, the loop of _connect_to_omc
Connecting == frame.op = "init" /\ frame.at = "connect"
ConnectGaveUp ==
    frame.op = "init" /\ frame.at = "raised" /\ frame.via # "None"

\* C29: while _connect_to_omc looks for the port, fewer than 80 attempts
\* have failed, each followed by one sleep of timeout/80, each round that
\* stays in the loop is one more attempt, and there is no socket; when the
\* port never appears it raises OMCSessionException at the 80th attempt,
\* after 79 sleeps, which together are no longer than the timeout, with no
\* socket made; a local target is polled by a file test, a docker target
\* by docker exec.
C29_DiscoveryBounded ==
    /\ [](Connecting =>
            /\ frame.attempts < 80
            /\ HasSlept(frame.attempts, 80)
            /\ omc = "None" /\ port = "None")
    /\ [](ConnectGaveUp =>
            /\ frame.attempts = 80
            /\ HasSlept(79, 80)
            /\ frame.slept.n * frame.slept.num
                   <= config.timeout * frame.slept.den
            /\ frame.exc.type = "OMCSessionException"
            /\ omc = "None" /\ port = "None"
            /\ frame.via = IF config.docker \/ config.dockerContainer
                           THEN "docker exec" ELSE "isfile")
    /\ [][(Connecting /\ Connecting' /\ frame' # frame) =>
              frame'.attempts = frame.attempts + 1]_vars

\* the port of an engine in a docker container has not appeared
C29_Witness ==
    /\ ConnectGaveUp
    /\ config.docker /\ frame.via = "docker exec"
    /\ frame.attempts = 80 /\ frame.slept.n = 79
    /\ omc = "None"

\* C30: every OMCSessionException the constructor raises holds the content
\* of the engine's log file in its message, among them the one raised when
\* the port never appears and the one raised when docker does not start.
C30_LaunchErrorCarriesLog ==
    (frame.op = "init" /\ frame.at = "raised"
       /\ frame.exc.type = "OMCSessionException") =>
        frame.exc.log

(***************************************************************************)
(* Properties of the teardown and of the start of the engine               *)
(***************************************************************************)

\* __del__ has ended
TornDown == frame.op = "__del__" /\ frame.at = "deleted"

\* C31: from whatever state of the session __del__ starts, when it has
\* ended no exception has left it, the log file is closed and the engine
\* process is not running.
C31_Teardown ==
    TornDown =>
        /\ frame.exc = NoException
        /\ omc_log_file.closed
        /\ omc_process # "running"

\* __del__ has reached or passed its close of the log file
LogCloseDue == frame.op = "__del__" /\ frame.at \in { "wait", "deleted" }

\* C32: the log file of a constructed session is open until __del__ closes
\* it, is closed by nothing else, is never closed twice, and is closed
\* when __del__ has ended.
C32_LogFileClosedOnce ==
    /\ omc_log_file.closes <= 1
    /\ ~LogCloseDue => ~omc_log_file.closed
    /\ TornDown => omc_log_file.closed

\* sendExpression has raised before any reply was received
TransportFailure ==
    /\ frame.op \in { "ask", "sendExpression", "__del__" }
    /\ frame.at = "raised"
    /\ frame.recvs = 0

\* C33: whatever the state of the session, a sendExpression that fails
\* before it has received a reply raises OMCSessionException and no other
\* exception.
C33_TransportErrorType ==
    TransportFailure => frame.exc.type = "OMCSessionException"

\* the engine runs on this host, outside a container
LocalEngine == ~config.docker /\ ~config.dockerContainer

\* C34: a local session that has found its port has read the port file
\* exactly once and has removed it, and has done so by the time it holds
\* a socket; before that it has neither read nor removed the file; a
\* session with a containerized engine never removes a local port file.
C34_PortFileSingleUse ==
    /\ (LocalEngine /\ port # "None") =>
           port_file = [reads |-> 1, removes |-> 1]
    /\ (LocalEngine /\ omc # "None") => port_file.removes = 1
    /\ (LocalEngine /\ port = "None") =>
           port_file = [reads |-> 0, removes |-> 0]
    /\ ~LocalEngine => port_file.removes = 0

\* a local session has connected and has made a call since
C34_Witness ==
    /\ LocalEngine
    /\ omc = "socket"
    /\ port_file.removes = 1
    /\ wire.sent > 0

\* _start_omc_process is past its loop on the cid file
CidLoopOver ==
    /\ config.docker
    /\ frame.op # "init" \/ frame.at # "cid"

\* the loop on the cid file has ended in OMCSessionException
CidRaised ==
    /\ frame.op = "init"
    /\ frame.at = "raised"
    /\ frame.exc = Exc("OMCSessionException", "Docker did not start", FALSE)

\* C35: the loop on the cid file makes at most 40 rounds with one sleep of
\* timeout/40 after each failed round; when the start goes on, the
\* container id is non-empty content read from the file; when no non-empty
\* id was read, the start raises OMCSessionException; either way the cid
\* file is gone after the loop.
C35_CidLoop ==
    /\ (config.docker /\ frame.op = "init" /\ frame.at = "cid") =>
           /\ frame.attempts < DockerAttempts
           /\ dockerCid \in { "None", "" }
           /\ HasSlept(frame.attempts, DockerAttempts)
    /\ CidLoopOver =>
           /\ ~dockerCidFile
           /\ CidRaised \/ dockerCid = "cid"
           /\ CidRaised => dockerCid \in { "None", "" }

\* the constructor is in its loop on docker top
InTopLoop == frame.op = "init" /\ frame.at = "top"

\* the constructor has left the loop on docker top with a process handle
TopLoopPassed ==
    /\ ~LocalEngine
    /\ frame.op = "init"
    /\ frame.at \in { "connect", "returned" }

\* docker top has answered 40 times and no round has found the process
TopLoopGaveUp ==
    /\ frame.op = "init"
    /\ frame.at = "raised"
    /\ frame.top # PyNone
    /\ frame.slept.n = DockerAttempts

\* C36: for a containerized engine the loop on docker top makes at most 40
\* rounds, with one sleep of timeout/40 after each round that found no
\* process; when the start goes on, the process handle holds the pid of
\* the first line of the listing that has the session's token; when 40
\* listings had no such line the start raises OMCSessionException with the
\* last listing and the log; the start never goes on without a handle.
C36_TopLoop ==
    /\ InTopLoop =>
           /\ frame.attempts < DockerAttempts
           /\ HasSlept(frame.attempts, DockerAttempts)
    /\ TopLoopPassed =>
           /\ omc_process # "None"
           /\ frame.top # PyNone
           /\ \E i \in 1..Len(frame.top.lines) :
                /\ frame.top.lines[i].token
                /\ omc_pid = PyInt(frame.top.lines[i].pid)
                /\ \A j \in 1..(i - 1) : ~frame.top.lines[j].token
    /\ TopLoopGaveUp =>
           /\ \A i \in 1..Len(frame.top.lines) : ~frame.top.lines[i].token
           /\ frame.exc.type = "OMCSessionException"
           /\ frame.exc.text = "Docker top did not contain omc process"
           /\ frame.exc.log
           /\ frame.exc.top = frame.top
           /\ frame.attempts = DockerAttempts
           /\ HasSlept(DockerAttempts, DockerAttempts)
    /\ (~LocalEngine /\ (frame.op # "init" \/ frame.at \in { "connect", "returned" })) =>
           /\ omc_process # "None"
           /\ omc_pid # PyNone

\* the start has gone on after a listing with several lines that hold the
\* token
C36_Witness ==
    /\ TopLoopPassed
    /\ Len(frame.top.lines) > 2
    /\ config.dockerContainer

(***************************************************************************)
(* The override map and the stored override argument                       *)
(***************************************************************************)

\* C37: whenever an argument 'override' is stored, its value is the sorted
\* comma-join of the entries of the override map, so every entry of the
\* map is in it, whatever calls of arg_set and args_set came before.
C37_OverrideConsistent ==
    DictHas(args, kOverride) =>
        DictGet(args, kOverride) = PyStr(OverrideArgval(arg_override))

(***************************************************************************)
(* parse_simflags                                                          *)
(***************************************************************************)

\* s.split(c) for a separator c of one character
RECURSIVE Split(_, _)
Split(s, c) ==
    IF \A i \in 1..Len(s) : s[i] # c THEN << s >>
    ELSE LET i == CHOOSE i \in 1..Len(s) :
                      s[i] = c /\ \A j \in 1..(i - 1) : s[j] # c
         IN  << SubSeq(s, 1, i - 1) >> \o Split(SubSeq(s, i + 1, Len(s)), c)

\* c.join(l)
RECURSIVE JoinWith(_, _)
JoinWith(l, c) ==
    IF l = << >> THEN << >>
    ELSE IF Len(l) = 1 THEN l[1]
    ELSE l[1] \o << c >> \o JoinWith(Tail(l), c)

\* what parse_simflags has so far: whether it goes on, and its dict
Parsed(ok, simargs) == [ok |-> ok, simargs |-> simargs]

\* the loop over override.split(','): one name=value item after the other
\* into override_dict; an item with two '=' or with a name and no '='
\* raises ModelExecutionException
RECURSIVE OverrideDict(_, _)
OverrideDict(d, items) ==
    IF items = << >> THEN Parsed(TRUE, d)
    ELSE LET kv == Split(Head(items), "=")
         IN  IF ~(0 < Len(kv) /\ Len(kv) < 3) THEN Parsed(FALSE, d)
             ELSE IF kv[1] = << >> THEN OverrideDict(d, Tail(items))
             ELSE IF Len(kv) < 2 THEN Parsed(FALSE, d)
             ELSE OverrideDict(DictSet(d, PyStr(kv[1]), PyStr(kv[2])),
                               Tail(items))

\* the body of the loop over the flags for one flag arg
SimArg(simargs, arg) ==
    IF Head(arg) # "-" THEN Parsed(FALSE, simargs)
    ELSE LET parts == Split(Tail(arg), "=")
         IN  IF Len(parts) = 1
             THEN Parsed(TRUE, DictSet(simargs, PyStr(parts[1]), PyNone))
             ELSE IF parts[1] = kOverride
             THEN LET override == JoinWith(Tail(parts), "=")
                      r        == OverrideDict(<< >>, Split(override, ","))
                  IN  IF r.ok
                      THEN Parsed(TRUE, DictSet(simargs, PyStr(parts[1]),
                                                PyDict(r.simargs)))
                      ELSE Parsed(FALSE, simargs)
             ELSE Parsed(TRUE, simargs)

RECURSIVE SimArgs(_, _)
SimArgs(simargs, flags) ==
    IF flags = << >> THEN Parsed(TRUE, simargs)
    ELSE LET r == SimArg(simargs, Head(flags))
         IN  IF r.ok THEN SimArgs(r.simargs, Tail(flags)) ELSE r

\* parse_simflags(simflags)
parse_simflags(simflags) ==
    SimArgs(<< >>, SelectSeq(Split(simflags, " "), LAMBDA s : s # << >>))

\* args_set(parse_simflags(' '.join(get_cmd_args()))) on a new
\* ModelExecutionCmd, and its get_cmd_args() afterwards; a parse_simflags
\* that raises returns no mapping
ParseSimflagsCall ==
    /\ Len(calls) < MaxCalls
    /\ LET simflags == JoinWith(GetCmdArgs(args), " ")
           p        == parse_simflags(simflags)
           r        == IF p.ok
                       THEN ArgsSet([args |-> << >>, arg_override |-> << >>],
                                    p.simargs)
                       ELSE Outcome(<< >>, << >>, FALSE, << >>)
       IN  calls' = Append(calls,
                           Called("parse_simflags", PyNone, PyStr(simflags), r,
                                  [simargs  |-> IF p.ok THEN p.simargs
                                                ELSE << >>,
                                   cmd_args |-> GetCmdArgs(r.args)]))
    /\ UNCHANGED << args, arg_override, run_vars, session_vars >>

NextFlags == ArgSetCall \/ ArgsSetCall \/ ParseSimflagsCall

SpecFlags == Init /\ [][NextFlags]_vars

\* the string has none of the characters
Without(s, chars) == \A i \in 1..Len(s) : s[i] \notin chars

\* the value of -override is a list of items name=value
OverrideFlag(v) ==
    /\ v.t = "str"
    /\ Without(v.s, { " " })
    /\ \A i \in 1..Len(Split(v.s, ",")) :
         LET kv == Split(Split(v.s, ",")[i], "=")
         IN  Len(kv) = 2 /\ kv[1] # << >>

\* every token of get_cmd_args() is -key, -key=value or
\* -override=n1=v1,n2=v2
FlagTokens(a) ==
    \A i \in 1..Len(a) :
        LET key == a[i][1]
            v   == a[i][2]
        IN  /\ key # << >>
            /\ Without(key, { " ", "=" })
            /\ IF key = kOverride /\ v.t # "None" THEN OverrideFlag(v)
               ELSE v.t = "str" => Without(v.s, { " " })

\* C38: parse_simflags of the flags of an argument set returns a mapping
\* with every key of the set, and args_set of that mapping on a new
\* ModelExecutionCmd gives the same get_cmd_args() list.
C38_SimflagsRoundTrip ==
    \A i \in 1..Len(calls) :
        (calls[i].op = "parse_simflags" /\ FlagTokens(calls[i].pre.args)) =>
            /\ calls[i].ok
            /\ \A j \in 1..Len(calls[i].pre.args) :
                 DictHas(calls[i].ret.simargs, PyStr(calls[i].pre.args[j][1]))
            /\ calls[i].ret.cmd_args = GetCmdArgs(calls[i].pre.args)

=============================================================================
